---------------------------- MODULE Spec2Model ----------------------------
(***************************************************************************)
(* Hearing calendar synchronisation (scrapper_refactored.py).              *)
(*                                                                         *)
(* The module models                                                       *)
(*   - HearingDataProcessor.combine_and_sort_dataframes and                *)
(*     HearingDataProcessor.find_changed_hearings as operators, exercised  *)
(*     on bounded frames by the specifications SpecMerge and SpecDetect;   *)
(*   - HearingManager.process_hearings with the spreadsheet, the calendar  *)
(*     and the notifier it drives, as the state machine Spec.              *)
(*                                                                         *)
(* A DataFrame is a sequence of rows; a row is a record with the eight     *)
(* canonical columns.  A date in display form 'DD/MM/YYYY' is the tuple    *)
(* <<dd, mm, yyyy>>; a parsed date (pandas Timestamp) is the number        *)
(* yyyy*10000 + mm*100 + dd, which orders as the calendar does.            *)
(***************************************************************************)
EXTENDS Integers, Sequences, FiniteSets, TLC

VARIABLES
    \* ---- harness of the pure functions ----
    argA,            \* first argument  (df1 / new_df / json_data)
    argB,            \* second argument (df2 / old_df)
    ret,             \* the DataFrame returned
    called,          \* "none" | "combine" | "find" | "json" | "fold" | "retry" |
                     \* "roundtrip" | "populate" | "populate_again"
    \* ---- external resources (persist from run to run) ----
    sheet,           \* rows of the snapshot spreadsheet under the header row
    calendar,        \* set of events [id, summary]
    tokenCache,      \* tribunals with an entry in the token cache file
    \* ---- one run of process_hearings ----
    pc,              \* "idle" | "auth" | "fetch" | a phase of Phases |
                     \* "populate_loop" | "ended"
    src,             \* number of source queries answered so far
    allHearings,     \* all_hearings (current_hearings while src <= 2)
    oldHearings,     \* old_hearings
    changedHearings, \* changed_hearings
    changedRows,     \* rows appended to the change-log sheet in this run
    idx,             \* rows of the frame the running loop has finished
    found,           \* events of the current stale row still to delete
    eventSummaries,  \* event_summaries fetched by populate_calendar
    createCalls,     \* indices of all_hearings rows create_event was called for
    calls,           \* calls made by the last step, by kind: calendar calls,
                     \* interactive logins, court answers 401 or 403
    did,             \* kinds of calendar call made so far in this run
    sent,            \* notifier.send calls made by the last step, by kind
    runs,            \* runs started so far
    failed,          \* some external call has failed since the start
    last,            \* what the last step of a calendar loop did
    outcome,         \* "running" | "completed" | "returned" | "aborted", with cause
    \* ---- the loops of a run, attempt by attempt (SpecLoops) ----
    tries,           \* failed attempts of the running invocation, by retried call
    elapsed,         \* seconds the login wait loop has waited
    resume,          \* what follows the notifier.send in progress ("none": no send)
    \* ---- the token cache file, entry by entry (SpecCache) ----
    cache_file,      \* content of TOKEN_CACHE_FILE: NoFile, Corrupt or a dict
    clock,           \* datetime.now(), in hours
    lastSave         \* by tribunal: the last save_tokens call and clears since

fnVars == <<argA, argB, ret, called>>
extVars == <<sheet, calendar, tokenCache>>
runVars == <<pc, src, allHearings, oldHearings, changedHearings, changedRows,
             idx, found, eventSummaries, createCalls, calls, did, sent, runs,
             failed, last, outcome>>
loopVars == <<tries, elapsed, resume>>
cacheVars == <<cache_file, clock, lastSave>>
vars == <<argA, argB, ret, called, sheet, calendar, tokenCache, pc, src, allHearings,
          oldHearings, changedHearings, changedRows, idx, found,
          eventSummaries, createCalls, calls, did, sent, runs, failed, last,
          outcome, tries, elapsed, resume, cache_file, clock, lastSave>>

---------------------------------------------------------------------------
(* Bounds of the model. *)

\* Longest frame handed to a pure function in SpecMerge and SpecDetect.
MaxRows == 2
\* Longest frame one court query returns in Spec.
MaxPayload == 2
\* Most events the calendar holds in Spec (inserts beyond it are not explored).
MaxEvents == 3
\* Runs of process_hearings in Spec.
MaxRuns == 2
\* Sources that answer with rows in SpecFold (the later ones answer empty).
MaxFold == 3
\* Longest frame written to the snapshot sheet in SpecSheet.
MaxWritten == 1510
\* Longest frame handed to populate_calendar in SpecPopulate.
MaxPopulated == 2510

---------------------------------------------------------------------------
(* Values of the columns. *)

\* 1 Feb 2027 and 2 Jan 2027: the display strings order one way
\* ("01/02/2027" < "02/01/2027"), the calendar dates the other.
Dates == {<<1, 2, 2027>>, <<2, 1, 2027>>}
Times == {"09:00:00", "14:00:00"}
Cases == {"0001-22.2027.5.02.0001", "0002-33.2027.5.15.0002"}
Claimants == {"Joao"}
Respondents == {"Empresa X"}
Venues == {<<"1a Vara do Trabalho">>}
Types == {"Inicial", "Una"}
Statuses == {"Designada", "Redesignada"}

Hearing(d, t, c, a, p, v, ty, st) ==
    [date |-> d, time |-> t, case |-> c, claimant |-> a, respondent |-> p,
     venue |-> v, type |-> ty, status |-> st]

AllHearings ==
    {Hearing(d, t, c, a, p, v, ty, st) :
        d \in Dates, t \in Times, c \in Cases, a \in Claimants,
        p \in Respondents, v \in Venues, ty \in Types, st \in Statuses}

\* Sequences over S of length at most n.
SeqUpTo(S, n) == UNION {[1..k -> S] : k \in 0..n}

Range(s) == {s[i] : i \in DOMAIN s}

Empty == <<>>

---------------------------------------------------------------------------
(* Dates. *)

\* None / NaN in a text column, and in the date column (a date is a tuple of
\* numbers, so its null is one too).
Null == "<null>"
NullDate == <<0, 0, 0>>

\* The Timestamp errors='coerce' gives for what is no date.
NaT == 0

\* pd.to_datetime(s, format='%d/%m/%Y'): display form to Timestamp.
to_datetime(d) == d[3] * 10000 + d[2] * 100 + d[1]

\* Series.dt.strftime('%d/%m/%Y'): Timestamp to display form.
strftime(n) == <<n % 100, (n \div 100) % 100, n \div 10000>>

---------------------------------------------------------------------------
(* HearingDataProcessor.combine_and_sort_dataframes *)

\* df['Data da Audiencia'] = pd.to_datetime(df['Data da Audiencia'], ...)
DateColumnToDatetime(df) ==
    [i \in DOMAIN df |-> [df[i] EXCEPT !.date = to_datetime(df[i].date)]]

\* df['Data da Audiencia'] = df['Data da Audiencia'].dt.strftime('%d/%m/%Y')
DateColumnToString(df) ==
    [i \in DOMAIN df |-> [df[i] EXCEPT !.date = strftime(df[i].date)]]

\* subset=['Numero do Processo', 'Orgao Julgador', 'Data da Audiencia',
\*         'Hora da Audiencia']
DedupKey(r) == <<r.case, r.venue, r.date, r.time>>

\* DataFrame.drop_duplicates(subset=..., keep='first')
RECURSIVE DropDupFrom(_, _, _)
DropDupFrom(df, i, acc) ==
    IF i > Len(df) THEN acc
    ELSE DropDupFrom(df, i + 1,
            IF \E j \in DOMAIN acc : DedupKey(acc[j]) = DedupKey(df[i])
            THEN acc ELSE Append(acc, df[i]))

\* Mutant: no row is dropped.
drop_duplicates_KeepsAll(df) == df

\* Mutant: keep='last', the last row of an identity tuple is the one kept.
drop_duplicates_KeepsLast(df) ==
    LET Reverse(f) == [i \in DOMAIN f |-> f[Len(f) + 1 - i]]
    IN  Reverse(DropDupFrom(Reverse(df), 1, Empty))

drop_duplicates(df) == DropDupFrom(df, 1, Empty)

\* The order of sort_values on Timestamps: ascending, NaT last.
NotAfter(a, b) == b = NaT \/ (a # NaT /\ a <= b)

\* Insert r after the rows whose date is at most r's (rows of one date keep
\* their order).
RECURSIVE InsertByDate(_, _)
InsertByDate(sorted, r) ==
    IF sorted = Empty THEN <<r>>
    ELSE IF NotAfter(Head(sorted).date, r.date)
         THEN <<Head(sorted)>> \o InsertByDate(Tail(sorted), r)
         ELSE <<r>> \o sorted

RECURSIVE SortFrom(_, _, _)
SortFrom(df, i, acc) ==
    IF i > Len(df) THEN acc
    ELSE SortFrom(df, i + 1, InsertByDate(acc, df[i]))

\* DataFrame.sort_values(by='Data da Audiencia') on the Timestamp column.
\* Rows of one date keep their order, as numpy's sort leaves them in the
\* short frames modelled here.
sort_values(df) == SortFrom(df, 1, Empty)

\* Mutant: an empty argument is no special case, the other argument is
\* deduplicated and sorted like any merge.
combine_AlwaysNormalises(df1, df2) ==
    DateColumnToString(sort_values(drop_duplicates(
        DateColumnToDatetime(df1) \o DateColumnToDatetime(df2))))

\* Mutant: the second frame is left out of the concatenation.
combine_FirstFrameOnly(df1, df2) ==
    IF df1 = Empty THEN df2
    ELSE IF df2 = Empty THEN df1
    ELSE DateColumnToString(sort_values(drop_duplicates(
             DateColumnToDatetime(df1))))

combine_and_sort_dataframes(df1, df2) ==
    IF df1 = Empty THEN df2
    ELSE IF df2 = Empty THEN df1
    ELSE LET df1_copy == DateColumnToDatetime(df1)
             df2_copy == DateColumnToDatetime(df2)
             combined_df == df1_copy \o df2_copy
             deduped == drop_duplicates(combined_df)
             sorted == sort_values(deduped)
         IN  DateColumnToString(sorted)

---------------------------------------------------------------------------
(* HearingDataProcessor.find_changed_hearings *)

\* Mutant: a change of the status counts as a change of the hearing.
ChangedRowsFor_ComparesStatus(row, old_df) ==
    LET Matching(o) == o.case = row.case /\ o.venue = row.venue
        Changed(o) == \/ o.date # row.date
                      \/ o.type # row.type
                      \/ o.time # row.time
                      \/ o.status # row.status
    IN  SelectSeq(SelectSeq(old_df, Matching), Changed)

\* One iteration of the loop over new_df: the old rows flagged for `row`.
ChangedRowsFor(row, old_df) ==
    LET Matching(o) == o.case = row.case /\ o.venue = row.venue
        Changed(o) == \/ o.date # row.date
                      \/ o.type # row.type
                      \/ o.time # row.time
        matching_rows == SelectSeq(old_df, Matching)
    IN  SelectSeq(matching_rows, Changed)

RECURSIVE FindFrom(_, _, _, _)
FindFrom(new_df, old_df, i, result) ==
    IF i > Len(new_df) THEN result
    ELSE FindFrom(new_df, old_df, i + 1,
                  result \o ChangedRowsFor(new_df[i], old_df))

\* Mutant: the new row is reported instead of the old rows it conflicts with.
find_ReturnsNewRows(new_df, old_df) ==
    IF new_df = Empty \/ old_df = Empty THEN Empty
    ELSE LET Conflicts(n) == ChangedRowsFor(n, old_df) # Empty
         IN  SelectSeq(new_df, Conflicts)

\* Mutant: an old row is reported once, however many new rows it conflicts
\* with.
find_SuppressesRepeats(new_df, old_df) ==
    IF new_df = Empty \/ old_df = Empty THEN Empty
    ELSE LET all == FindFrom(new_df, old_df, 1, Empty)
             firsts == {i \in DOMAIN all : \A j \in 1..(i - 1) : all[j] # all[i]}
             nth(k) == CHOOSE i \in firsts :
                           Cardinality({j \in firsts : j <= i}) = k
         IN  [k \in 1..Cardinality(firsts) |-> all[nth(k)]]

\* Mutant: an empty new frame flags every old row, as if all hearings were
\* cancelled.
find_FlagsAllWhenNewIsEmpty(new_df, old_df) ==
    IF new_df = Empty THEN old_df
    ELSE IF old_df = Empty THEN Empty
    ELSE FindFrom(new_df, old_df, 1, Empty)

find_changed_hearings(new_df, old_df) ==
    IF new_df = Empty \/ old_df = Empty THEN Empty
    ELSE FindFrom(new_df, old_df, 1, Empty)

---------------------------------------------------------------------------
(* The pure functions on bounded frames. *)

\* Rows for combine_and_sort_dataframes: date, case and status vary, so that
\* rows can share the identity tuple and still differ.
MergeHearings ==
    {h \in AllHearings : h.type = "Inicial" /\ h.time = "09:00:00"}

\* Rows for find_changed_hearings: date, time and type vary within one case,
\* and one row belongs to another case.
DetectHearings ==
    {h \in AllHearings :
        /\ h.status = "Designada"
        /\ \/ h.case = "0001-22.2027.5.02.0001"
           \/ (h.date = <<1, 2, 2027>> /\ h.time = "09:00:00" /\ h.type = "Inicial")}

\* The calls under @tenacity_retry that a run makes.
RetriedCalls ==
    {"send", "search", "read", "clear", "write", "append", "list", "find",
     "insert", "delete"}

\* No invocation is running.
NoTries == [call \in RetriedCalls |-> 0]

LoopsIdle == tries = NoTries /\ elapsed = 0 /\ resume = "none"

\* TokenCache._load_cache reads one of three files: none, one that json.load
\* rejects, or the document the last json.dump wrote.
NoFile == [kind |-> "missing", data |-> <<>>]
Corrupt == [kind |-> "corrupt", data |-> <<>>]

\* No cache file yet, and no save_tokens call so far.
CacheIdle == cache_file = NoFile /\ clock = 0 /\ lastSave = <<>>

RunIdle ==
    /\ LoopsIdle
    /\ pc = "idle"
    /\ src = 0
    /\ allHearings = Empty
    /\ oldHearings = Empty
    /\ changedHearings = Empty
    /\ changedRows = 0
    /\ idx = 0
    /\ found = Empty
    /\ eventSummaries = {}
    /\ createCalls = {}
    /\ calls = [list |-> 0, find |-> 0, insert |-> 0, delete |-> 0,
                login |-> 0, denied |-> 0]
    /\ did = {}
    /\ sent = [error |-> 0, anomaly |-> 0, changed |-> 0, empty |-> 0]
    /\ runs = 0
    /\ failed = FALSE
    /\ last = <<"none">>
    /\ outcome = [status |-> "idle", cause |-> "none"]

InitFn(H) ==
    /\ argA \in SeqUpTo(H, MaxRows)
    /\ argB \in SeqUpTo(H, MaxRows)
    /\ ret = Empty
    /\ called = "none"
    /\ sheet = Empty
    /\ calendar = {}
    /\ tokenCache = {}
    /\ RunIdle
    /\ CacheIdle

CallCombine ==
    /\ called = "none"
    /\ ret' = combine_and_sort_dataframes(argA, argB)
    /\ called' = "combine"
    /\ UNCHANGED <<argA, argB, extVars, runVars, loopVars, cacheVars>>

CallFind ==
    /\ called = "none"
    /\ ret' = find_changed_hearings(argA, argB)
    /\ called' = "find"
    /\ UNCHANGED <<argA, argB, extVars, runVars, loopVars, cacheVars>>

InitMerge == InitFn(MergeHearings)
NextMerge == CallCombine
SpecMerge == InitMerge /\ [][NextMerge]_vars

\* Rows for find_changed_hearings that differ in the parties and the status:
\* one hearing on either date, as it is and with another claimant, another
\* respondent and another status.
PartyHearings ==
    LET base == {h \in AllHearings :
                    /\ h.case = "0001-22.2027.5.02.0001"
                    /\ h.time = "09:00:00"
                    /\ h.type = "Inicial"
                    /\ h.status = "Designada"}
    IN  UNION {{h,
                [h EXCEPT !.claimant = "Maria"],
                [h EXCEPT !.respondent = "Empresa Y"],
                [h EXCEPT !.status = "Redesignada"]} : h \in base}

InitDetect == InitFn(DetectHearings)
NextDetect == CallFind
SpecDetect == InitDetect /\ [][NextDetect]_vars

InitParties == InitFn(PartyHearings)
SpecParties == InitParties /\ [][NextDetect]_vars

---------------------------------------------------------------------------
(* The calendar and its events. *)

\* row.values: the columns by position (row_values[0] is the date).
row_values(r) ==
    <<r.date, r.time, r.case, r.claimant, r.respondent, r.venue, r.type,
      r.status>>

\* f'{row_values[6]} - {row_values[3]} x {row_values[4]} {row_values[0]}
\*   as {row_values[1]} - {row_values[5]}': the title, as the tuple of its
\* parts <<type, claimant, respondent, date, time, venue>>.
event_summary(rv) == <<rv[7], rv[4], rv[5], rv[1], rv[2], rv[6]>>

Title(r) == event_summary(row_values(r))

IsPrefix(p, s) == Len(p) <= Len(s) /\ SubSeq(s, 1, Len(p)) = p

\* events().list(q=summary): the query text occurs in the event's title.  A
\* title ends with the venue, so it holds the text of every title that is
\* equal up to a venue that is a prefix of its own.
TitleMatches(summary, q) ==
    /\ \A k \in 1..5 : summary[k] = q[k]
    /\ IsPrefix(q[6], summary[6])

RECURSIVE ById(_)
ById(events) ==
    IF events = {} THEN Empty
    ELSE LET e == CHOOSE x \in events : \A y \in events : x.id <= y.id
         IN  <<e>> \o ById(events \ {e})

\* The answer of find_events_by_summary when the query succeeds.
MatchingEvents(cal, q) == ById({e \in cal : TitleMatches(e.summary, q)})

\* The id the calendar gives to an inserted event.
FreshId(cal) ==
    CHOOSE n \in 1..(Cardinality(cal) + 1) : \A e \in cal : e.id # n

---------------------------------------------------------------------------
(* HearingDataProcessor.json_to_dataframe *)

\* A row of the 'resultado' list of a court answer, by the keys the code
\* selects; dataInicio is an ISO date <<year, month, day>>.
RawRow(d, t, c, a, p, v, ty, st) ==
    [dataInicio |-> d, horaInicial |-> t, numero |-> c, poloAtivo |-> a,
     poloPassivo |-> p, orgaoJulgador |-> v, tipo |-> ty,
     statusDescricao |-> st]

\* The raw row json_to_dataframe turns into the canonical row h.
RawOf(h) ==
    RawRow(<<h.date[3], h.date[2], h.date[1]>>, h.time, h.case, h.claimant,
           h.respondent, h.venue, h.type, h.status)

\* pd.to_datetime(column, errors='coerce'): an ISO date to a Timestamp, NaT
\* for a missing value and for what is no date.
to_datetime_coerce(d) ==
    IF d[1] >= 1 /\ d[2] \in 1..12 /\ d[3] \in 1..31
    THEN d[1] * 10000 + d[2] * 100 + d[3]
    ELSE NaT

\* The keys of a raw row the code selects (`columns`), by their last part.
Columns ==
    {"dataInicio", "horaInicial", "numero", "poloAtivo", "poloPassivo",
     "orgaoJulgador", "tipo", "statusDescricao"}

\* None / NaN in a column.
NullOf(col) == IF col = "dataInicio" THEN NullDate ELSE Null

\* pd.json_normalize(json_data['resultado']): the columns are the keys some
\* row has; a row without a key has NaN in its column.  A raw row is a
\* function from the keys it has to their values.
json_normalize(resultado) ==
    LET cols == UNION {DOMAIN resultado[i] : i \in DOMAIN resultado}
    IN  [i \in DOMAIN resultado |->
            [col \in cols |-> IF col \in DOMAIN resultado[i]
                              THEN resultado[i][col] ELSE NullOf(col)]]

\* dataframe.empty: no row or no column.
IsEmptyFrame(dataframe) ==
    dataframe = Empty \/ \A i \in DOMAIN dataframe : DOMAIN dataframe[i] = {}

\* `for col in missing_cols: dataframe[col] = None` and
\* `dataframe = dataframe[columns]`.
SelectColumns(dataframe) ==
    [i \in DOMAIN dataframe |->
        [col \in Columns |-> IF col \in DOMAIN dataframe[i]
                             THEN dataframe[i][col] ELSE NullOf(col)]]

\* The selected columns under their new names, the date as '%d/%m/%Y' text
\* (null for NaT).
Renamed(raw) ==
    Hearing(strftime(to_datetime_coerce(raw.dataInicio)), raw.horaInicial,
            raw.numero, raw.poloAtivo, raw.poloPassivo, raw.orgaoJulgador,
            raw.tipo, raw.statusDescricao)

IsComplete(r) == r.date # NullDate /\ r.case # Null

\* Mutant: rows without a date or a case number stay in the frame.
dropna_KeepsAll(df) == df

\* dataframe.dropna(subset=['Data da Audiencia', 'Numero do Processo'])
dropna(df) == SelectSeq(df, IsComplete)

\* Mutant: a column no row has is not created, so the selection of the
\* columns fails and the except branch returns the empty frame.
json_to_dataframe_NoColumnFill(json_data) ==
    IF DOMAIN json_data = {} \/ "resultado" \notin DOMAIN json_data THEN Empty
    ELSE LET dataframe == json_normalize(json_data.resultado)
         IN  IF IsEmptyFrame(dataframe) THEN Empty
             ELSE IF \E i \in DOMAIN dataframe : DOMAIN dataframe[i] # Columns
                  THEN Empty
                  ELSE dropna([i \in DOMAIN dataframe |-> Renamed(dataframe[i])])

\* json_data is the decoded answer, a function from its keys to their
\* values: `not json_data` is an answer without keys.
json_to_dataframe(json_data) ==
    IF DOMAIN json_data = {} \/ "resultado" \notin DOMAIN json_data THEN Empty
    ELSE LET dataframe == json_normalize(json_data.resultado)
         IN  IF IsEmptyFrame(dataframe) THEN Empty
             ELSE LET selected == SelectColumns(dataframe)
                  IN  dropna([i \in DOMAIN selected |-> Renamed(selected[i])])

---------------------------------------------------------------------------
(* json_to_dataframe on bounded answers. *)

\* A raw row without one of its keys.
WithoutKey(raw, key) == [col \in DOMAIN raw \ {key} |-> raw[col]]

\* Raw rows for json_to_dataframe: two well-formed rows, and rows with a null
\* case number, without the key of the case number, with a date that is
\* none (month 13), without the key of the date, without the key of the
\* claimant, and without any key.
JsonRawRows ==
    LET r1 == RawRow(<<2027, 2, 1>>, "09:00:00", "0001-22.2027.5.02.0001",
                     "Joao", "Empresa X", <<"1a Vara do Trabalho">>,
                     "Inicial", "Designada")
        r2 == RawRow(<<2027, 1, 2>>, "14:00:00", "0002-33.2027.5.15.0002",
                     "Joao", "Empresa X", <<"1a Vara do Trabalho">>,
                     "Una", "Redesignada")
    IN  {r1, r2,
         [r1 EXCEPT !.numero = Null],
         WithoutKey(r1, "numero"),
         [r1 EXCEPT !.dataInicio = <<2027, 13, 1>>],
         WithoutKey(r1, "dataInicio"),
         WithoutKey(r2, "poloAtivo"),
         [col \in {} |-> Null]}

\* Answers for json_to_dataframe: one without keys, one without the key
\* 'resultado', and those with a list of raw rows under it.
JsonPayloads ==
    {[col \in {} |-> Null], [mensagem |-> "indisponivel"]}
        \cup [resultado : SeqUpTo(JsonRawRows, MaxRows)]

InitJson ==
    /\ argA \in JsonPayloads
    /\ argB = Empty
    /\ ret = Empty
    /\ called = "none"
    /\ sheet = Empty
    /\ calendar = {}
    /\ tokenCache = {}
    /\ RunIdle
    /\ CacheIdle

CallJson ==
    /\ called = "none"
    /\ ret' = json_to_dataframe(argA)
    /\ called' = "json"
    /\ UNCHANGED <<argA, argB, extVars, runVars, loopVars, cacheVars>>

NextJson == CallJson
SpecJson == InitJson /\ [][NextJson]_vars

---------------------------------------------------------------------------
(* HearingManager.process_hearings *)

\* stop_after_attempt(3) of every retried operation.
StopAfterAttempt == 3

\* range(current_year + 1, current_year + 4)
FutureYears == 3

\* TRT2 and TRT15 for the current year, then both for each future year.
NumSources == 2 + 2 * FutureYears

\* Rows the court queries return in Spec.
RunHearings ==
    {h \in AllHearings :
        h.type = "Inicial" /\ h.status = "Designada" /\ h.time = "09:00:00"}

\* Rows of the court answers in Spec: the raw form of RunHearings, and one
\* of them without its case number, without its date, and with a date that
\* is none (month 13).
RunRawRows ==
    LET good == {RawOf(h) : h \in RunHearings}
        r == RawOf(CHOOSE h \in RunHearings :
                      h.date = <<1, 2, 2027>> /\ h.case = "0001-22.2027.5.02.0001")
    IN  good \cup {[r EXCEPT !.numero = Null],
                   [r EXCEPT !.dataInicio = NullDate],
                   [r EXCEPT !.dataInicio = <<2027, 13, 1>>]}

\* The answers of a court query in Spec.
RawPayloads == [resultado : SeqUpTo(RunRawRows, MaxPayload)]

\* The frames json_to_dataframe makes of them.
Payloads == {json_to_dataframe(json_data) : json_data \in RawPayloads}

\* Mutant: the calendar is populated before the stale events are removed.
Phases_PopulateFirst ==
    <<"read", "detect", "append", "write", "populate", "reconcile">>

\* Mutant: the snapshot is overwritten before it is read.
Phases_WriteFirst ==
    <<"write", "read", "detect", "append", "reconcile", "populate">>

\* The steps of process_hearings after the collection, in program order.
Phases == <<"read", "detect", "append", "reconcile", "write", "populate">>

PhaseIndex(p) == CHOOSE i \in DOMAIN Phases : Phases[i] = p

\* The phase after the i-th: `if not changed_hearings.empty` guards the
\* append to the change log and handle_changed_events.
RECURSIVE After(_, _)
After(i, changed) ==
    IF i >= Len(Phases) THEN "ended"
    ELSE IF Phases[i + 1] \in {"append", "reconcile"} /\ changed = Empty
         THEN After(i + 1, changed)
         ELSE Phases[i + 1]

Advance(p, changed) == After(PhaseIndex(p), changed)

Running == [status |-> "running", cause |-> "none"]
Completed == [status |-> "completed", cause |-> "none"]

NoCalls ==
    [list |-> 0, find |-> 0, insert |-> 0, delete |-> 0, login |-> 0,
     denied |-> 0]
NoneSent == [error |-> 0, anomaly |-> 0, changed |-> 0, empty |-> 0]

Init ==
    /\ argA = Empty
    /\ argB = Empty
    /\ ret = Empty
    /\ called = "none"
    /\ sheet = Empty
    /\ calendar = {}
    /\ tokenCache = {}
    /\ RunIdle
    /\ CacheIdle

\* Calendar calls and notifications of one step.
Calls(kind, n) == [NoCalls EXCEPT ![kind] = n]
Sent(kind, n) == [NoneSent EXCEPT ![kind] = n]

\* A step that ends with every external call it made answered: it sent the
\* notifications `now`.
Proceeds(now) == sent' = now /\ UNCHANGED failed

\* A step in which an external call failed and the failure was caught: it
\* sent the notifications `now` and the run goes on.
Degrades(now) == sent' = now /\ failed' = TRUE

\* Mutant: main does not call sys.exit, the process ends with status 0
\* whatever happened.
ExitCode_AlwaysZero(o) == 0

\* The exit status of the process: main calls sys.exit(1) when an exception
\* reaches it, and returns otherwise.
ExitCode(o) == IF o.status = "aborted" THEN 1 ELSE 0

\* main(): a manager is built and process_hearings starts; or
\* Config.validate finds a required setting missing, HearingManager.__init__
\* raises before any component is built, and main logs the error, calls
\* notifier.send and exits 1.
StartRun ==
    /\ pc \in {"idle", "ended"}
    /\ runs < MaxRuns
    /\ runs' = runs + 1
    /\ \/ /\ pc' = "auth"
          /\ Proceeds(NoneSent)
          /\ outcome' = Running
       \/ /\ pc' = "ended"
          /\ outcome' = [status |-> "aborted", cause |-> "config"]
          /\ sent' = Sent("error", 1)
          /\ failed' = TRUE
    /\ src' = 0
    /\ allHearings' = Empty
    /\ oldHearings' = Empty
    /\ changedHearings' = Empty
    /\ changedRows' = 0
    /\ idx' = 0
    /\ found' = Empty
    /\ eventSummaries' = {}
    /\ createCalls' = {}
    /\ calls' = NoCalls
    /\ did' = {}
    /\ last' = <<"none">>
    /\ UNCHANGED <<fnVars, loopVars, cacheVars, extVars>>

\* An exception leaves the step: process_hearings logs it, calls
\* notifier.send and re-raises; main calls notifier.send and exits 1.
\* `now` are the notifications of the failing step itself.
Abort(cause, now) ==
    /\ pc' = "ended"
    /\ outcome' = [status |-> "aborted", cause |-> cause]
    /\ sent' = [now EXCEPT !.error = @ + 2]
    /\ failed' = TRUE

\* The step of phase p ends normally.
Finish(p, changed) ==
    /\ pc' = Advance(p, changed)
    /\ outcome' = IF Advance(p, changed) = "ended" THEN Completed ELSE outcome

\* The tribunals, and the one the n-th query of a run goes to (n from 0):
\* TRT2 and TRT15 in turn.
Tribunals == {"TRT2", "TRT15"}
SourceTribunal(n) == IF n % 2 = 0 THEN "TRT2" ELSE "TRT15"

\* Mutant: clear_tokens leaves the entry in the cache file.
clear_tokens_KeepsEntry(cache, tribunal) == cache

\* TokenCache.clear_tokens(tribunal) and TokenCache.save_tokens(tribunal, ..)
\* on the cache file.
clear_tokens(cache, tribunal) == cache \ {tribunal}
save_tokens(cache, tribunal) == cache \cup {tribunal}

\* CourtSession.login_interactive of one tribunal: the results it can come
\* to, each with the cache it leaves and the browser logins it made.  Cached
\* tokens are used when _validate_session accepts them; they are passed over
\* when expired and cleared when rejected, and the browser login follows,
\* which saves its tokens when it succeeds.
login_interactive(cache, tribunal) ==
    LET browser(c) ==
            {[ok |-> TRUE, cache |-> save_tokens(c, tribunal), logins |-> 1],
             [ok |-> FALSE, cache |-> c, logins |-> 1]}
    IN  IF tribunal \in cache
        THEN {[ok |-> TRUE, cache |-> cache, logins |-> 0]}
                 \cup browser(cache)
                 \cup browser(clear_tokens(cache, tribunal))
        ELSE browser(cache)

\* Mutant: process_hearings ignores the result of _authenticate_with_courts
\* and goes on to the court queries.
AuthFailed_GoesOn(cache, logins) ==
    /\ tokenCache' = cache
    /\ calls' = Calls("login", logins)
    /\ pc' = "fetch"
    /\ Degrades(Sent("error", 1))
    /\ UNCHANGED outcome

\* A failed login is notified (login_interactive) and ends the run
\* (process_hearings returns).
AuthFailed(cache, logins) ==
    /\ tokenCache' = cache
    /\ calls' = Calls("login", logins)
    /\ \/ /\ pc' = "ended"
          /\ outcome' = [status |-> "returned", cause |-> "auth"]
          /\ Degrades(Sent("error", 1))
       \/ Abort("notify", Sent("error", 1))

\* _authenticate_with_courts: TRT2, then TRT15 unless TRT2 failed.
Authenticate ==
    /\ pc = "auth"
    /\ \E trt2 \in login_interactive(tokenCache, "TRT2") :
          IF ~trt2.ok THEN AuthFailed(trt2.cache, trt2.logins)
          ELSE \E trt15 \in login_interactive(trt2.cache, "TRT15") :
                  IF ~trt15.ok
                  THEN AuthFailed(trt15.cache, trt2.logins + trt15.logins)
                  ELSE /\ pc' = "fetch"
                       /\ tokenCache' = trt15.cache
                       /\ calls' = Calls("login", trt2.logins + trt15.logins)
                       /\ Proceeds(NoneSent)
                       /\ UNCHANGED outcome
    /\ UNCHANGED <<fnVars, loopVars, cacheVars, sheet, calendar, src, allHearings, oldHearings,
                   changedHearings, changedRows, idx, found, eventSummaries,
                   createCalls, did, runs, last>>

\* The frame collected so far, with the answer of one more query: the first
\* answer is trt2_hearings, every later one is merged into the frame.
Collected(got) ==
    IF src = 0 THEN got ELSE combine_and_sort_dataframes(allHearings, got)

\* A query is answered (with `got`, empty when it failed) and the collection
\* goes on.
NextSource(got) ==
    /\ allHearings' = Collected(got)
    /\ src' = src + 1
    /\ pc' = IF src + 1 = NumSources THEN Phases[1] ELSE "fetch"
    /\ UNCHANGED outcome

\* search_hearings, one attempt answered 401 or 403: the tribunal's tokens
\* are cleared, and the error is raised (and retried as any request error).
Denied(denied) ==
    /\ tokenCache' = IF denied > 0
                     THEN clear_tokens(tokenCache, SourceTribunal(src))
                     ELSE tokenCache
    /\ calls' = Calls("denied", denied)

\* _get_current_hearings / _get_future_hearings and the merge that follows.
\* The query is answered within the attempts of search_hearings by a frame
\* of `payloads` (what json_to_dataframe makes of the answer), or it fails
\* at every attempt; the failed query is notified and counts as an empty
\* frame.  `denials` are the numbers of attempts the court may answer with
\* 401 or 403.
Fetch(payloads, denials) ==
    /\ pc = "fetch"
    /\ \/ \E df \in payloads, denied \in denials :
             /\ denied < StopAfterAttempt
             /\ Denied(denied)
             /\ NextSource(df)
             /\ Proceeds(NoneSent)
       \/ \E denied \in denials :
             /\ Denied(denied)
             /\ \/ /\ NextSource(Empty)
                   /\ Degrades(Sent("error", 1))
                \/ /\ Abort("notify", Sent("error", 1))
                   /\ UNCHANGED <<allHearings, src>>
    /\ UNCHANGED <<fnVars, loopVars, cacheVars, sheet, calendar, oldHearings, changedHearings,
                   changedRows, idx, found, eventSummaries, createCalls, did,
                   runs, last>>

\* The queries of Spec: the courts answer with RawPayloads or not at all,
\* never with 401 or 403.
FetchSource == Fetch(Payloads, {0})

\* sheets.read_from_sheet: an HttpError is notified and retried, then
\* raised; any other error is notified and yields an empty frame.
ReadSnapshot ==
    /\ pc = "read"
    /\ \/ /\ oldHearings' = sheet
          /\ Finish("read", changedHearings)
          /\ Proceeds(NoneSent)
       \/ /\ Abort("read", Sent("error", StopAfterAttempt))
          /\ UNCHANGED oldHearings
       \/ /\ oldHearings' = Empty
          /\ Finish("read", changedHearings)
          /\ Degrades(Sent("error", 1))
       \/ /\ Abort("notify", Sent("error", 1))
          /\ UNCHANGED oldHearings
    /\ calls' = NoCalls
    /\ UNCHANGED <<fnVars, loopVars, cacheVars, extVars, src, allHearings, changedHearings,
                   changedRows, idx, found, eventSummaries, createCalls, did,
                   runs, last>>

\* processor.find_changed_hearings(all_hearings, old_hearings)
DetectChanges ==
    /\ pc = "detect"
    /\ changedHearings' = find_changed_hearings(allHearings, oldHearings)
    /\ Finish("detect", changedHearings')
    /\ calls' = NoCalls
    /\ Proceeds(NoneSent)
    /\ UNCHANGED <<fnVars, loopVars, cacheVars, extVars, src, allHearings, oldHearings, changedRows,
                   idx, found, eventSummaries, createCalls, did, runs, last>>

\* sheets.append_to_sheet(changed_hearings, ...): every failed attempt is
\* notified; the last one raises.
AppendChanges ==
    /\ pc = "append"
    /\ \/ /\ changedRows' = Len(changedHearings)
          /\ Finish("append", changedHearings)
          /\ Proceeds(NoneSent)
       \/ /\ Abort("append", Sent("error", StopAfterAttempt))
          /\ UNCHANGED changedRows
    /\ calls' = NoCalls
    /\ UNCHANGED <<fnVars, loopVars, cacheVars, extVars, src, allHearings, oldHearings,
                   changedHearings, idx, found, eventSummaries, createCalls,
                   did, runs, last>>

\* The stale row handle_changed_events is working on, and its title.
StaleRow == changedHearings[idx + 1]
StaleTitle == Title(StaleRow)

\* The loop of handle_changed_events moves to the next stale row, or the
\* call returns after the last one.
NextStaleRow ==
    /\ idx' = IF idx + 1 = Len(changedHearings) THEN 0 ELSE idx + 1
    /\ IF idx + 1 = Len(changedHearings)
       THEN Finish("reconcile", changedHearings)
       ELSE UNCHANGED <<pc, outcome>>

\* Mutant: a stale row without an event is passed over in silence.
NotFoundNotice_Silent == NoneSent

\* `if not events`: the notification that the event to delete was not found.
NotFoundNotice == Sent("anomaly", 1)

\* handle_changed_events, one stale row: the title query (an error of the
\* query yields no events), and the anomaly notification when it finds none.
ReconcileFind ==
    /\ pc = "reconcile"
    /\ found = Empty
    /\ idx < Len(changedHearings)
    /\ calls' = Calls("find", 1)
    /\ did' = did \cup {"find"}
    /\ \E events \in {MatchingEvents(calendar, StaleTitle), Empty} :
          IF events # Empty
          THEN /\ found' = events
               /\ last' = <<"found", StaleTitle>>
               /\ Proceeds(NoneSent)
               /\ UNCHANGED <<idx, pc, outcome>>
          ELSE /\ found' = Empty
               /\ last' = <<"miss", StaleTitle>>
               /\ \/ /\ sent' = NotFoundNotice
                     /\ failed' = (failed \/ events # MatchingEvents(calendar, StaleTitle))
                     /\ NextStaleRow
                  \/ /\ Abort("notify", NotFoundNotice)
                     /\ UNCHANGED idx
    /\ UNCHANGED <<fnVars, loopVars, cacheVars, extVars, src, allHearings, oldHearings,
                   changedHearings, changedRows, eventSummaries, createCalls,
                   runs>>

\* calendar.delete_event(event_id): the event is removed; a 404 (the event
\* is no longer there) is logged only; any other error is retried and raised.
delete_event(cal, e) == cal \ {e}

\* handle_changed_events, one event of the current stale row: the delete and
\* the notification that follows it.  `found` keeps the events no delete
\* was called for yet.
ReconcileDelete ==
    /\ pc = "reconcile"
    /\ found # Empty
    /\ found' = Tail(found)
    /\ did' = did \cup {"delete"}
    /\ \/ /\ calendar' = delete_event(calendar, Head(found))
          /\ calls' = Calls("delete", 1)
          /\ last' = <<"deleted", StaleTitle>>
          /\ \/ /\ Proceeds(Sent("changed", 1))
                /\ IF Tail(found) = Empty
                   THEN NextStaleRow
                   ELSE UNCHANGED <<idx, pc, outcome>>
             \/ /\ Abort("notify", Sent("changed", 1))
                /\ UNCHANGED idx
       \/ /\ Head(found) \in calendar
          /\ calls' = Calls("delete", StopAfterAttempt)
          /\ last' = <<"delete_failed", StaleTitle>>
          /\ Abort("delete", NoneSent)
          /\ UNCHANGED <<calendar, idx>>
    /\ UNCHANGED <<fnVars, loopVars, cacheVars, sheet, tokenCache, src, allHearings, oldHearings,
                   changedHearings, changedRows, eventSummaries, createCalls,
                   runs>>

\* sheets.write_to_sheet(all_hearings, ...): an empty frame is notified and
\* not written; otherwise the sheet is cleared and then updated.  A failure
\* of clear_sheet leaves the sheet as it was, a failure of the update leaves
\* it cleared; either is notified at every attempt and raised.
WriteSnapshot ==
    /\ pc = "write"
    /\ IF allHearings = Empty
       THEN /\ UNCHANGED sheet
            /\ \/ /\ Proceeds(Sent("empty", 1))
                  /\ Finish("write", changedHearings)
               \/ Abort("notify", Sent("empty", StopAfterAttempt))
       ELSE \/ /\ sheet' = allHearings
               /\ Finish("write", changedHearings)
               /\ Proceeds(NoneSent)
            \/ /\ UNCHANGED sheet
               /\ Abort("write",
                        Sent("error", StopAfterAttempt * (StopAfterAttempt + 1)))
            \/ /\ sheet' = Empty
               /\ Abort("write", Sent("error", StopAfterAttempt))
    /\ calls' = NoCalls
    /\ UNCHANGED <<fnVars, loopVars, cacheVars, calendar, tokenCache, src, allHearings, oldHearings,
                   changedHearings, changedRows, idx, found, eventSummaries,
                   createCalls, did, runs, last>>

\* calendar.get_event_summaries: the titles on the calendar.
get_event_summaries(cal) == {e.summary : e \in cal}

\* populate_calendar up to its loop: an empty frame is notified and nothing
\* else happens; otherwise the titles are fetched (a failed listing is
\* notified and yields no titles).
PopulateStart ==
    /\ pc = "populate"
    /\ IF allHearings = Empty
       THEN /\ UNCHANGED <<eventSummaries, did>>
            /\ calls' = NoCalls
            /\ \/ /\ Proceeds(Sent("empty", 1))
                  /\ Finish("populate", changedHearings)
               \/ Abort("notify", Sent("empty", 1))
       ELSE /\ did' = did \cup {"list"}
            /\ \/ /\ eventSummaries' = get_event_summaries(calendar)
                  /\ calls' = Calls("list", 1)
                  /\ Proceeds(NoneSent)
                  /\ pc' = "populate_loop"
                  /\ UNCHANGED outcome
               \/ /\ eventSummaries' = {}
                  /\ calls' = Calls("list", 1)
                  /\ Degrades(Sent("error", 1))
                  /\ pc' = "populate_loop"
                  /\ UNCHANGED outcome
               \/ /\ eventSummaries' = {}
                  /\ calls' = Calls("list", StopAfterAttempt)
                  /\ Abort("notify", Sent("error", StopAfterAttempt))
    /\ UNCHANGED <<fnVars, loopVars, cacheVars, extVars, src, allHearings, oldHearings,
                   changedHearings, changedRows, idx, found, createCalls, runs,
                   last>>

\* calendar.create_event(row_values): events().insert of an event with the
\* row's title.
create_event(cal, rv) ==
    cal \cup {[id |-> FreshId(cal), summary |-> event_summary(rv)]}

\* Whether the loop of populate_calendar calls create_event for a title.
NeedsCreate(summary, event_summaries) == summary \notin event_summaries

\* The loop of populate_calendar moves to the next row, or the call returns
\* after the last one.
NextRow ==
    /\ idx' = IF idx + 1 = Len(allHearings) THEN 0 ELSE idx + 1
    /\ IF idx + 1 = Len(allHearings)
       THEN Finish("populate", changedHearings)
       ELSE UNCHANGED <<pc, outcome>>

\* populate_calendar, one row of the loop.
PopulateRow ==
    /\ pc = "populate_loop"
    /\ idx < Len(allHearings)
    /\ LET rv == row_values(allHearings[idx + 1])
           summary == event_summary(rv)
       IN  IF NeedsCreate(summary, eventSummaries)
           THEN /\ createCalls' = createCalls \cup {idx + 1}
                /\ did' = did \cup {"insert"}
                /\ \/ /\ Cardinality(calendar) < MaxEvents
                      /\ calendar' = create_event(calendar, rv)
                      /\ calls' = Calls("insert", 1)
                      /\ last' = <<"created", summary>>
                      /\ Proceeds(NoneSent)
                      /\ NextRow
                   \/ /\ calls' = Calls("insert", StopAfterAttempt)
                      /\ last' = <<"create_failed", summary>>
                      /\ Abort("insert", NoneSent)
                      /\ UNCHANGED <<calendar, idx>>
           ELSE /\ last' = <<"present", summary>>
                /\ calls' = NoCalls
                /\ Proceeds(NoneSent)
                /\ NextRow
                /\ UNCHANGED <<calendar, createCalls, did>>
    /\ UNCHANGED <<fnVars, loopVars, cacheVars, sheet, tokenCache, src, allHearings, oldHearings,
                   changedHearings, changedRows, found, eventSummaries, runs>>

Next ==
    \/ StartRun
    \/ Authenticate
    \/ FetchSource
    \/ ReadSnapshot
    \/ DetectChanges
    \/ AppendChanges
    \/ ReconcileFind
    \/ ReconcileDelete
    \/ WriteSnapshot
    \/ PopulateStart
    \/ PopulateRow

Spec == Init /\ [][Next]_vars

---------------------------------------------------------------------------
(* The fold of process_hearings on bounded answers. *)

RECURSIVE FoldFrom(_, _, _)
FoldFrom(answers, i, acc) ==
    IF i > Len(answers) THEN acc
    ELSE FoldFrom(answers, i + 1,
                  combine_and_sort_dataframes(acc, answers[i]))

\* all_hearings of process_hearings for the frames of its NumSources queries,
\* in the order of the queries: current_hearings is the merge of the first
\* two, every later frame is merged into the result.
Fold(answers) ==
    FoldFrom(answers, 3, combine_and_sort_dataframes(answers[1], answers[2]))

\* Rows for the fold: one hearing under either status.
FoldHearings ==
    {h \in MergeHearings :
        h.case = "0001-22.2027.5.02.0001" /\ h.date = <<1, 2, 2027>>}

\* The frames of the queries: those of the first MaxFold queries are in
\* argA, the later queries return nothing.
Answers(first) == first \o [i \in 1..(NumSources - Len(first)) |-> Empty]

InitFold ==
    /\ argA \in [1..MaxFold -> SeqUpTo(FoldHearings, MaxRows)]
    /\ argB = Empty
    /\ ret = Empty
    /\ called = "none"
    /\ sheet = Empty
    /\ calendar = {}
    /\ tokenCache = {}
    /\ RunIdle
    /\ CacheIdle

CallFold ==
    /\ called = "none"
    /\ ret' = Fold(Answers(argA))
    /\ called' = "fold"
    /\ UNCHANGED <<argA, argB, extVars, runVars, loopVars, cacheVars>>

NextFold == CallFold
SpecFold == InitFold /\ [][NextFold]_vars

---------------------------------------------------------------------------
(* The retried operations (tenacity), one invocation on given outcomes of  *)
(* its remote calls.  The notifications of the except blocks are sent.     *)

\* What a remote call comes to: an answer, an error answer of the service
\* (HttpError, requests' HTTPError), or any other exception.
RemoteOutcomes == {"ok", "http", "other"}

\* EmailNotifier.send, CourtSession.search_hearings, read_from_sheet,
\* clear_sheet, append_to_sheet, create_event, delete_event, and
\* write_to_sheet, which calls clear_sheet and then the update.
Operations ==
    {"send", "search", "read", "clear", "append", "insert", "delete", "write"}

\* Whether a remote call with this outcome makes the operation raise an
\* exception its retry condition holds for.  read_from_sheet catches what is
\* no HttpError and returns an empty frame; every other operation re-raises
\* whatever the call raised.
Retried(op, answer) ==
    IF op = "read" THEN answer = "http" ELSE answer # "ok"

\* The attempts of one invocation: the operation is called again while it
\* raised such an exception and fewer than StopAfterAttempt attempts were
\* made.
RECURSIVE AttemptsFrom(_, _, _)
AttemptsFrom(op, outcomes, i) ==
    IF i < StopAfterAttempt /\ Retried(op, outcomes[i])
    THEN AttemptsFrom(op, outcomes, i + 1)
    ELSE i

\* One invocation of an operation that makes one remote call per attempt:
\* the remote calls made, and whether an exception leaves the invocation.
Invoke(op, outcomes) ==
    LET n == AttemptsFrom(op, outcomes, 1)
    IN  [attempts |-> n, clears |-> 0, raised |-> Retried(op, outcomes[n])]

\* write_to_sheet from its attempt-th attempt on, `clears` calls of the
\* clear request and `updates` calls of the update made so far: the attempt
\* invokes clear_sheet (retried by itself) and, when that returned, calls
\* the update; an exception of either makes the attempt fail.
RECURSIVE WriteFrom(_, _, _, _, _)
WriteFrom(attempt, clears, updates, clearOutcomes, updateOutcomes) ==
    LET cleared == Invoke("clear", SubSeq(clearOutcomes, clears + 1,
                                          clears + StopAfterAttempt))
        clearsNow == clears + cleared.attempts
        updatesNow == IF cleared.raised THEN updates ELSE updates + 1
        written == ~cleared.raised /\ updateOutcomes[updatesNow] = "ok"
    IN  IF written \/ attempt = StopAfterAttempt
        THEN [attempts |-> updatesNow, clears |-> clearsNow,
              raised |-> ~written]
        ELSE WriteFrom(attempt + 1, clearsNow, updatesNow, clearOutcomes,
                       updateOutcomes)

\* argA is the operation invoked with the outcomes of its remote calls, argB
\* the outcomes of the clear requests of write_to_sheet.
InitRetry ==
    /\ \/ /\ argA \in [op : Operations \ {"write"},
                       outcomes : [1..StopAfterAttempt -> RemoteOutcomes]]
          /\ argB = Empty
       \/ /\ argA \in [op : {"write"},
                       outcomes : [1..StopAfterAttempt -> {"ok", "other"}]]
          /\ argB \in [1..(StopAfterAttempt * StopAfterAttempt) ->
                          {"ok", "other"}]
    /\ ret = Empty
    /\ called = "none"
    /\ sheet = Empty
    /\ calendar = {}
    /\ tokenCache = {}
    /\ RunIdle
    /\ CacheIdle

CallRetried ==
    /\ called = "none"
    /\ ret' = IF argA.op = "write"
              THEN WriteFrom(1, 0, 0, argB, argA.outcomes)
              ELSE Invoke(argA.op, argA.outcomes)
    /\ called' = "retry"
    /\ UNCHANGED <<argA, argB, extVars, runVars, loopVars, cacheVars>>

NextRetry == CallRetried
SpecRetry == InitRetry /\ [][NextRetry]_vars

---------------------------------------------------------------------------
(* The snapshot sheet: write_to_sheet followed by read_from_sheet.  The    *)
(* cells are the sequence of the sheet's rows, the header row first; a row *)
(* of a frame is named by a number.                                        *)

\* dataframe.columns of a merged set.
SheetHeader ==
    <<"Data da Audiencia", "Hora da Audiencia", "Numero do Processo",
      "Reclamante", "Reclamado", "Orgao Julgador", "Tipo", "Status">>

\* range_name = 'A1:I1502' of read_from_sheet: the last sheet row it asks
\* for.
ReadLastRow == 1502

\* clear_sheet: updateCells over the whole sheet.
clear_sheet(cells) == Empty

\* values().update(range='A1:I{len + 1}', body=values): the rows of the
\* range are replaced, the cells under it stay.
update(cells, values) ==
    values \o SubSeq(cells, Len(values) + 1, Len(cells))

\* write_to_sheet when its calls succeed: the sheet is cleared, then the
\* header and the rows of the frame are written from A1 on; an empty frame
\* is not written.
write_to_sheet(cells, dataframe) ==
    IF dataframe = Empty THEN cells
    ELSE update(clear_sheet(cells), <<SheetHeader>> \o dataframe)

\* read_from_sheet when its call succeeds: values().get(range='A1:I1502'),
\* the first row as the columns and the rest as the rows of the frame.
read_from_sheet(cells) ==
    LET data == SubSeq(cells, 1,
                       IF Len(cells) < ReadLastRow THEN Len(cells)
                       ELSE ReadLastRow)
    IN  IF data = Empty THEN [columns |-> <<>>, rows |-> Empty]
        ELSE [columns |-> Head(data), rows |-> Tail(data)]

\* Rows of the previous snapshot (argB) and of the merged set (argA): the
\* previous snapshot is empty or holds three rows; the merged set holds 1 to
\* MaxWritten rows.
InitSheet ==
    /\ argA \in {[i \in 1..n |-> i] : n \in 1..MaxWritten}
    /\ argB \in {Empty, <<-1, -2, -3>>}
    /\ ret = Empty
    /\ called = "none"
    /\ sheet = Empty
    /\ calendar = {}
    /\ tokenCache = {}
    /\ RunIdle
    /\ CacheIdle

\* The merged set is written over the previous snapshot and read back.
CallWriteRead ==
    /\ called = "none"
    /\ ret' = read_from_sheet(write_to_sheet(<<SheetHeader>> \o argB, argA))
    /\ called' = "roundtrip"
    /\ UNCHANGED <<argA, argB, extVars, runVars, loopVars, cacheVars>>

NextSheet == CallWriteRead
SpecSheet == InitSheet /\ [][NextSheet]_vars

---------------------------------------------------------------------------
(* populate_calendar called twice on a calendar of any size.  The events   *)
(* of the calendar are the sequence of their titles in the order of their  *)
(* creation; a title, and the row that has it, is named by a number.       *)

\* maxResults=2500 of the events().list call of get_event_summaries.
MaxResults == 2500

\* get_event_summaries when its call succeeds: the titles of the one page
\* events().list returns, which holds at most maxResults events (here the
\* fullest page there can be, the earliest events); no further page is asked
\* for.
ListedSummaries(events) ==
    Range(SubSeq(events, 1,
                 IF Len(events) < MaxResults THEN Len(events)
                 ELSE MaxResults))

\* populate_calendar when its calls succeed: the calendar it leaves and the
\* titles it called create_event for, in order.  The titles are listed
\* once, before the loop.
populate_calendar(events, dataframe) ==
    IF dataframe = Empty THEN [events |-> events, created |-> Empty]
    ELSE LET event_summaries == ListedSummaries(events)
             Missing(summary) == summary \notin event_summaries
             created == SelectSeq(dataframe, Missing)
         IN  [events |-> events \o created, created |-> created]

\* The record set (argA): 1 to MaxPopulated rows with titles of their own,
\* or a few rows with a repeated title.  The calendar (argB) is empty or
\* holds two events of other titles.
InitPopulate ==
    /\ argA \in {[i \in 1..n |-> i] : n \in 1..MaxPopulated}
                    \cup {<<1, 1>>, <<1, 2, 1>>}
    /\ argB \in {Empty, <<-1, -2>>}
    /\ ret = Empty
    /\ called = "none"
    /\ sheet = Empty
    /\ calendar = {}
    /\ tokenCache = {}
    /\ RunIdle
    /\ CacheIdle

\* populate_calendar(argA) on the calendar argB; ret keeps the create calls.
Populated ==
    /\ argB' = populate_calendar(argB, argA).events
    /\ ret' = populate_calendar(argB, argA).created
    /\ UNCHANGED <<argA, extVars, runVars, loopVars, cacheVars>>

CallPopulate ==
    /\ called = "none"
    /\ called' = "populate"
    /\ Populated

\* The same call again, right after the first.
CallPopulateAgain ==
    /\ called = "populate"
    /\ called' = "populate_again"
    /\ Populated

NextPopulate == CallPopulate \/ CallPopulateAgain
SpecPopulate == InitPopulate /\ [][NextPopulate]_vars

---------------------------------------------------------------------------
(* One call of handle_changed_events, on the stale sets find_changed_hearings *)
(* can return and on calendars that hold events for some of them.  argB     *)
(* keeps the calendar as it was when the call started.                      *)

\* The frames find_changed_hearings returns for frames of DetectHearings.
StaleSets ==
    {find_changed_hearings(new_df, old_df) :
        new_df \in SeqUpTo(DetectHearings, MaxRows),
        old_df \in SeqUpTo(DetectHearings, MaxRows)} \ {Empty}

\* An event with the title of the i-th row of a frame.
EventOf(dataframe, i) == [id |-> i, summary |-> Title(dataframe[i])]

InitReconcile ==
    /\ changedHearings \in StaleSets
    /\ calendar \in SUBSET {EventOf(changedHearings, i) :
                               i \in DOMAIN changedHearings}
    /\ argB = calendar
    /\ argA = Empty
    /\ ret = Empty
    /\ called = "none"
    /\ sheet = Empty
    /\ tokenCache = {}
    /\ pc = "reconcile"
    /\ src = NumSources
    /\ allHearings = Empty
    /\ oldHearings = Empty
    /\ changedRows = Len(changedHearings)
    /\ idx = 0
    /\ found = Empty
    /\ eventSummaries = {}
    /\ createCalls = {}
    /\ calls = NoCalls
    /\ did = {}
    /\ sent = NoneSent
    /\ runs = 1
    /\ failed = FALSE
    /\ last = <<"none">>
    /\ outcome = Running
    /\ LoopsIdle
    /\ CacheIdle

NextReconcile == ReconcileFind \/ ReconcileDelete
SpecReconcile == InitReconcile /\ [][NextReconcile]_vars

---------------------------------------------------------------------------
(* One run of process_hearings, attempt by attempt: a step is one poll of   *)
(* the login wait loop or one attempt of a call under @tenacity_retry, a    *)
(* notifier.send included.  The positions are those of Spec, with "browser" *)
(* and "wait" inside login_interactive and "update" inside write_to_sheet;  *)
(* idx counts the tribunals logged in while the run authenticates.          *)

\* timeout: int = 300 of login_interactive, and the time.sleep(2) of its
\* wait loop.
LoginTimeout == 300
PollSeconds == 2

LoginTribunal == IF idx = 0 THEN "TRT2" ELSE "TRT15"

\* The answers of a court query in SpecLoops.
LoopPayloads ==
    {Empty} \cup
    {<<h>> : h \in {r \in RunHearings : r.case = "0001-22.2027.5.02.0001"}}

\* The hearing the snapshot sheet may hold when the run starts.
LoopOldRow ==
    CHOOSE h \in RunHearings :
        h.case = "0001-22.2027.5.02.0001" /\ h.date = <<1, 2, 2027>>

\* The state of the run as a record, and the step that makes it the next
\* state.
Now ==
    [pc |-> pc, outcome |-> outcome, tries |-> tries, elapsed |-> elapsed,
     resume |-> resume, src |-> src, idx |-> idx,
     allHearings |-> allHearings, oldHearings |-> oldHearings,
     changedHearings |-> changedHearings, changedRows |-> changedRows,
     found |-> found, eventSummaries |-> eventSummaries, sheet |-> sheet,
     calendar |-> calendar, tokenCache |-> tokenCache, failed |-> failed,
     last |-> last]

Becomes(t) ==
    /\ pc' = t.pc
    /\ outcome' = t.outcome
    /\ tries' = t.tries
    /\ elapsed' = t.elapsed
    /\ resume' = t.resume
    /\ src' = t.src
    /\ idx' = t.idx
    /\ allHearings' = t.allHearings
    /\ oldHearings' = t.oldHearings
    /\ changedHearings' = t.changedHearings
    /\ changedRows' = t.changedRows
    /\ found' = t.found
    /\ eventSummaries' = t.eventSummaries
    /\ sheet' = t.sheet
    /\ calendar' = t.calendar
    /\ tokenCache' = t.tokenCache
    /\ failed' = t.failed
    /\ last' = t.last
    /\ UNCHANGED <<fnVars, cacheVars, calls, sent, runs, did, createCalls>>

\* Mutant: a failed attempt is not counted.
NextTry_NotCounted(n) == n

\* The attempt number tenacity keeps for an invocation.
NextTry(n) == n + 1

\* stop_after_attempt(3): the attempt that fails after n failed ones is the
\* last.
LastAttempt(n) == n + 1 >= StopAfterAttempt

\* An invocation of `call` is over.
Returned(s, call) == [s EXCEPT !.tries[call] = 0]

\* notifier.send(...) is called; `then` names what follows it.
Notify(s, then) == [s EXCEPT !.resume = then, !.tries["send"] = 0]

\* The run is over.
EndedWith(s, status, cause) ==
    [s EXCEPT !.pc = "ended", !.resume = "none",
              !.outcome = [status |-> status, cause |-> cause]]

\* An exception reaches the except of process_hearings: it calls
\* notifier.send and raises again; main calls notifier.send and exits.
Critical(s, cause) ==
    Notify([s EXCEPT !.outcome = [status |-> "aborted", cause |-> cause],
                     !.failed = TRUE],
           "critical")

\* An attempt of `call` raised: the call is made again unless this was the
\* last attempt, after which the error leaves the invocation.
FailedAttempt(s, call) ==
    LET t == [s EXCEPT !.failed = TRUE]
    IN  IF LastAttempt(s.tries[call]) THEN Critical(Returned(t, call), call)
        ELSE [t EXCEPT !.tries[call] = NextTry(@)]

\* The same for clear_sheet, whose error is caught and notified by
\* write_to_sheet, and for search_hearings, whose error is caught and
\* notified by _get_current_hearings and _get_future_hearings.
FailedClear(s) ==
    IF LastAttempt(s.tries["clear"])
    THEN Notify(Returned(s, "clear"), "write_failed")
    ELSE [s EXCEPT !.tries["clear"] = NextTry(@)]

FailedSearch(s) ==
    LET t == [s EXCEPT !.failed = TRUE]
    IN  IF LastAttempt(s.tries["search"])
        THEN Notify(Returned(t, "search"), "fetch_failed")
        ELSE [t EXCEPT !.tries["search"] = NextTry(@)]

\* login_interactive returned True.
LoggedIn(s) ==
    [s EXCEPT !.idx = IF s.idx = 0 THEN 1 ELSE 0,
              !.pc = IF s.idx = 0 THEN "auth" ELSE "fetch",
              !.elapsed = 0]

\* A source was answered with `got`.
SourceAnswered(s, got) ==
    [s EXCEPT !.allHearings = IF s.src = 0 THEN got
                              ELSE combine_and_sort_dataframes(@, got),
              !.src = @ + 1,
              !.pc = IF s.src + 1 = NumSources THEN Phases[1] ELSE "fetch"]

\* The loops of handle_changed_events and populate_calendar move on.
StaleRowDone(s) ==
    IF s.idx + 1 = Len(s.changedHearings)
    THEN [s EXCEPT !.idx = 0, !.pc = Advance("reconcile", s.changedHearings)]
    ELSE [s EXCEPT !.idx = @ + 1]

RowDone(s) ==
    IF s.idx + 1 = Len(s.allHearings)
    THEN EndedWith([s EXCEPT !.idx = 0], "completed", "none")
    ELSE [s EXCEPT !.idx = @ + 1]

\* What follows a notifier.send that returned.
Delivered(s) ==
    LET r == Returned([s EXCEPT !.resume = "none"], "send")
    IN  CASE s.resume = "login_failed" -> EndedWith(r, "returned", "auth")
          [] s.resume = "fetch_failed" -> SourceAnswered(r, Empty)
          [] s.resume = "read_failed" -> FailedAttempt(r, "read")
          [] s.resume = "read_empty" ->
                 Returned([r EXCEPT !.oldHearings = Empty,
                                    !.pc = Advance("read", Empty)], "read")
          [] s.resume = "append_failed" -> FailedAttempt(r, "append")
          [] s.resume = "miss" -> StaleRowDone(r)
          [] s.resume = "changed" ->
                 IF r.found = Empty THEN StaleRowDone(r) ELSE r
          [] s.resume = "clear_failed" -> FailedClear(r)
          [] s.resume = "write_failed" ->
                 FailedAttempt([r EXCEPT !.pc = "write"], "write")
          [] s.resume = "write_empty" ->
                 Returned([r EXCEPT !.pc = Advance("write", Empty)], "write")
          [] s.resume = "populate_empty" -> EndedWith(r, "completed", "none")
          [] s.resume = "list_failed" ->
                 Returned([r EXCEPT !.eventSummaries = {},
                                    !.pc = "populate_loop"], "list")
          [] s.resume = "critical" -> Notify(r, "main")
          [] s.resume = "main" -> EndedWith(r, "aborted", r.outcome.cause)

\* What follows a notifier.send that raised after its last attempt: inside
\* a call under @tenacity_retry the error is one more reason to try the call
\* again, elsewhere it reaches the except of process_hearings.
Escalated(s) ==
    LET r == Returned([s EXCEPT !.resume = "none", !.failed = TRUE], "send")
    IN  CASE s.resume \in {"login_failed", "fetch_failed", "miss", "changed",
                           "populate_empty"} -> Critical(r, "notify")
          [] s.resume = "read_empty" -> FailedAttempt(r, "read")
          [] s.resume = "write_empty" -> FailedAttempt(r, "write")
          [] s.resume = "list_failed" -> FailedAttempt(r, "list")
          [] OTHER -> Delivered([s EXCEPT !.failed = TRUE])

InitLoops ==
    /\ argA = Empty
    /\ argB = Empty
    /\ ret = Empty
    /\ called = "none"
    /\ sheet \in {Empty, <<LoopOldRow>>}
    /\ calendar \in {{}, {[id |-> 1, summary |-> Title(LoopOldRow)]}}
    /\ tokenCache \in SUBSET Tribunals
    /\ LoopsIdle
    /\ CacheIdle
    /\ pc = "auth"
    /\ src = 0
    /\ allHearings = Empty
    /\ oldHearings = Empty
    /\ changedHearings = Empty
    /\ changedRows = 0
    /\ idx = 0
    /\ found = Empty
    /\ eventSummaries = {}
    /\ createCalls = {}
    /\ calls = NoCalls
    /\ did = {}
    /\ sent = NoneSent
    /\ runs = 1
    /\ failed = FALSE
    /\ last = <<"none">>
    /\ outcome = Running

\* login_interactive up to its try: the cached tokens are loaded (an expired
\* entry counts as none) and, when there are any, checked by
\* _validate_session; tokens it rejects are cleared.
LoadCachedTokens ==
    /\ pc = "auth"
    /\ resume = "none"
    /\ \E verdict \in IF LoginTribunal \in tokenCache
                      THEN {"valid", "rejected", "expired"} ELSE {"none"} :
          LET s == [Now EXCEPT !.last = <<"cache", verdict>>]
          IN  Becomes(CASE verdict = "valid" -> LoggedIn(s)
                        [] verdict = "rejected" ->
                               [s EXCEPT !.pc = "browser",
                                         !.tokenCache =
                                             clear_tokens(@, LoginTribunal)]
                        [] OTHER -> [s EXCEPT !.pc = "browser"])

\* The driver is installed, Chrome is started and the login page is opened;
\* a WebDriverException is notified and the login has failed.
OpenBrowser ==
    /\ pc = "browser"
    /\ resume = "none"
    /\ LET s == [Now EXCEPT !.last = <<"browser">>]
       IN  \/ Becomes([s EXCEPT !.pc = "wait", !.elapsed = 0])
           \/ Becomes(Notify([s EXCEPT !.failed = TRUE], "login_failed"))

\* One round of the wait loop: the login is detected, the cookies are saved
\* and login_interactive returns True; or the loop sleeps; or the driver
\* raises; after the timeout a TimeoutException is raised and notified.
PollLogin ==
    /\ pc = "wait"
    /\ resume = "none"
    /\ LET s == [Now EXCEPT !.last = <<"poll">>]
       IN  IF elapsed < LoginTimeout
           THEN \/ Becomes(LoggedIn(
                       [s EXCEPT !.tokenCache = save_tokens(@, LoginTribunal),
                                 !.last = <<"saved">>]))
                \/ Becomes([s EXCEPT !.elapsed = @ + PollSeconds])
                \/ Becomes(Notify([s EXCEPT !.failed = TRUE], "login_failed"))
           ELSE Becomes(Notify([s EXCEPT !.failed = TRUE], "login_failed"))

\* One attempt of search_hearings for the next source: an answer, or an
\* error (401 and 403 clear the tribunal's tokens first).
SearchAttempt ==
    /\ pc = "fetch"
    /\ resume = "none"
    /\ \/ \E got \in LoopPayloads :
             Becomes(SourceAnswered(Returned(Now, "search"), got))
       \/ Becomes(FailedSearch(Now))
       \/ Becomes(FailedSearch(
              [Now EXCEPT !.tokenCache =
                              clear_tokens(@, SourceTribunal(src))]))

\* One attempt of read_from_sheet: the frame, an HttpError, or another
\* error; both errors are notified.
ReadAttempt ==
    /\ pc = "read"
    /\ resume = "none"
    /\ \/ Becomes(Returned([Now EXCEPT !.oldHearings = sheet,
                                       !.pc = Advance("read", Empty)],
                           "read"))
       \/ Becomes(Notify([Now EXCEPT !.failed = TRUE], "read_failed"))
       \/ Becomes(Notify([Now EXCEPT !.failed = TRUE], "read_empty"))

\* One attempt of append_to_sheet.
AppendAttempt ==
    /\ pc = "append"
    /\ resume = "none"
    /\ \/ Becomes(Returned(
              [Now EXCEPT !.changedRows = Len(changedHearings),
                          !.pc = Advance("append", changedHearings)],
              "append"))
       \/ Becomes(Notify([Now EXCEPT !.failed = TRUE], "append_failed"))

\* find_events_by_summary for the next stale row: its error is swallowed and
\* yields no events; no events are notified as an anomaly.
FindAttempt ==
    /\ pc = "reconcile"
    /\ resume = "none"
    /\ found = Empty
    /\ idx < Len(changedHearings)
    /\ \/ /\ MatchingEvents(calendar, StaleTitle) # Empty
          /\ Becomes([Now EXCEPT !.found =
                                     MatchingEvents(calendar, StaleTitle)])
       \/ /\ MatchingEvents(calendar, StaleTitle) = Empty
          /\ Becomes(Notify(Now, "miss"))
       \/ Becomes(Notify([Now EXCEPT !.failed = TRUE], "miss"))

\* One attempt of delete_event for the next event found; the delete that
\* returned is notified.
DeleteAttempt ==
    /\ pc = "reconcile"
    /\ resume = "none"
    /\ found # Empty
    /\ \/ Becomes(Notify(
              Returned([Now EXCEPT !.calendar = delete_event(@, Head(found)),
                                   !.found = Tail(@)], "delete"),
              "changed"))
       \/ Becomes(FailedAttempt(Now, "delete"))

\* write_to_sheet up to its update: an empty frame is notified; otherwise
\* one attempt of clear_sheet, whose error is notified.
ClearAttempt ==
    /\ pc = "write"
    /\ resume = "none"
    /\ IF allHearings = Empty
       THEN Becomes(Notify(Now, "write_empty"))
       ELSE \/ Becomes(Returned([Now EXCEPT !.sheet = Empty,
                                            !.pc = "update"], "clear"))
            \/ Becomes(Notify([Now EXCEPT !.failed = TRUE], "clear_failed"))

\* The update of write_to_sheet; its error is notified.
UpdateAttempt ==
    /\ pc = "update"
    /\ resume = "none"
    /\ \/ Becomes(Returned([Now EXCEPT !.sheet = allHearings,
                                       !.pc = Advance("write", Empty)],
                           "write"))
       \/ Becomes(Notify([Now EXCEPT !.failed = TRUE], "write_failed"))

\* populate_calendar up to its loop: an empty frame is notified; otherwise
\* one attempt of get_event_summaries, whose error is notified.
ListAttempt ==
    /\ pc = "populate"
    /\ resume = "none"
    /\ IF allHearings = Empty
       THEN Becomes(Notify(Now, "populate_empty"))
       ELSE \/ Becomes(Returned(
                   [Now EXCEPT !.eventSummaries =
                                   get_event_summaries(calendar),
                               !.pc = "populate_loop"], "list"))
            \/ Becomes(Notify([Now EXCEPT !.failed = TRUE], "list_failed"))

\* The loop of populate_calendar, one row: nothing for a title that was
\* listed, one attempt of create_event otherwise.
CreateAttempt ==
    /\ pc = "populate_loop"
    /\ resume = "none"
    /\ idx < Len(allHearings)
    /\ LET rv == row_values(allHearings[idx + 1])
       IN  IF NeedsCreate(event_summary(rv), eventSummaries)
           THEN \/ Becomes(RowDone(Returned(
                        [Now EXCEPT !.calendar = create_event(@, rv)],
                        "insert")))
                \/ Becomes(FailedAttempt(Now, "insert"))
           ELSE Becomes(RowDone(Now))

\* One attempt of EmailNotifier.send.
SendAttempt ==
    /\ resume # "none"
    /\ \/ Becomes(Delivered(Now))
       \/ IF LastAttempt(tries["send"])
          THEN Becomes(Escalated(Now))
          ELSE Becomes([Now EXCEPT !.tries["send"] = NextTry(@),
                                   !.failed = TRUE])

NextLoops ==
    \/ LoadCachedTokens
    \/ OpenBrowser
    \/ PollLogin
    \/ SearchAttempt
    \/ ReadAttempt
    \/ DetectChanges
    \/ AppendAttempt
    \/ FindAttempt
    \/ DeleteAttempt
    \/ ClearAttempt
    \/ UpdateAttempt
    \/ ListAttempt
    \/ CreateAttempt
    \/ SendAttempt

\* The program keeps running: a step that can be taken is taken.
SpecLoops == InitLoops /\ [][NextLoops]_vars /\ WF_vars(NextLoops)

---------------------------------------------------------------------------
(***************************************************************************)
(* The token cache file: TokenCache.save_tokens, load_tokens and           *)
(* clear_tokens called in any order while the clock advances.  Times are   *)
(* whole hours; a cookie list is a list of name/value dicts, which         *)
(* json.dump and json.load carry over unchanged.  Every file operation     *)
(* succeeds, but for the reads _load_cache itself provides for.            *)
(***************************************************************************)
TOKEN_EXPIRY_HOURS == 24
MaxClock == 72

\* The waits between two calls, short of the expiry, up to it and beyond it.
Waits == {12, 36}

CookieLists ==
    {<<[name |-> "JSESSIONID", value |-> v]>> : v \in {"a", "b"}}

\* Optional[List[Dict]]: None, or the list returned.
None == <<>>
Some(cookies) == <<cookies>>

\* clear_tokens called without a tribunal.
NoTribunal == "<none>"

\* datetime.isoformat and datetime.fromisoformat: the time written as a day
\* and an hour of the day, and read back from them.
isoformat(hours) == <<hours \div 24, hours % 24>>
fromisoformat(text) == text[1] * 24 + text[2]

\* TokenCache._load_cache: a missing or unreadable file is an empty cache.
load_cache(file) == IF file.kind = "json" THEN file.data ELSE <<>>

\* json.dump of cache_data over the file.
dump_cache(cache_data) == [kind |-> "json", data |-> cache_data]

TokenCache_save_tokens_NoExpiry(file, now, tribunal, cookies) ==
    LET cache_data == load_cache(file)
        entry == [cookies    |-> cookies,
                  timestamp  |-> isoformat(now),
                  expires_at |-> isoformat(MaxClock + TOKEN_EXPIRY_HOURS)]
    IN  dump_cache([t \in DOMAIN cache_data \cup {tribunal} |->
                       IF t = tribunal THEN entry ELSE cache_data[t]])

\* TokenCache.save_tokens: the entry of the tribunal is written over, with
\* the expiry TOKEN_EXPIRY_HOURS from now, and the whole cache is dumped.
TokenCache_save_tokens(file, now, tribunal, cookies) ==
    LET cache_data == load_cache(file)
        entry == [cookies    |-> cookies,
                  timestamp  |-> isoformat(now),
                  expires_at |-> isoformat(now + TOKEN_EXPIRY_HOURS)]
    IN  dump_cache([t \in DOMAIN cache_data \cup {tribunal} |->
                       IF t = tribunal THEN entry ELSE cache_data[t]])

\* TokenCache.load_tokens: None without an entry or after its expiry.
load_tokens(file, now, tribunal) ==
    LET cache_data == load_cache(file)
    IN  IF tribunal \notin DOMAIN cache_data
        THEN None
        ELSE IF now > fromisoformat(cache_data[tribunal].expires_at)
             THEN None
             ELSE Some(cache_data[tribunal].cookies)

TokenCache_clear_tokens_DropsAll(file, tribunal) ==
    IF tribunal # NoTribunal
    THEN LET cache_data == load_cache(file)
         IN  IF tribunal \in DOMAIN cache_data
             THEN dump_cache(<<>>)
             ELSE file
    ELSE NoFile

\* TokenCache.clear_tokens: with a tribunal its entry is deleted and the cache
\* dumped, only when there is one; without a tribunal the file is unlinked.
TokenCache_clear_tokens(file, tribunal) ==
    IF tribunal # NoTribunal
    THEN LET cache_data == load_cache(file)
         IN  IF tribunal \in DOMAIN cache_data
             THEN dump_cache([t \in DOMAIN cache_data \ {tribunal} |->
                                 cache_data[t]])
             ELSE file
    ELSE NoFile

InitCache ==
    /\ argA = NoTribunal
    /\ argB = None
    /\ ret = None
    /\ called = "none"
    /\ sheet = Empty
    /\ calendar = {}
    /\ tokenCache = {}
    /\ RunIdle
    /\ cache_file \in {NoFile, Corrupt}
    /\ clock = 0
    /\ lastSave = <<>>

\* What a call leaves besides the file: the tribunal it was made for and the
\* tribunals that have an entry now.
CacheCall(name, tribunal, file) ==
    /\ called' = name
    /\ argA' = tribunal
    /\ cache_file' = file
    /\ tokenCache' = DOMAIN load_cache(file)
    /\ UNCHANGED <<sheet, calendar, runVars, loopVars>>

CallSaveTokens ==
    \E tribunal \in Tribunals, cookies \in CookieLists :
        /\ CacheCall("save_tokens", tribunal,
                     TokenCache_save_tokens(cache_file, clock, tribunal, cookies))
        /\ argB' = Some(cookies)
        /\ ret' = None
        /\ lastSave' = [t \in DOMAIN lastSave \cup {tribunal} |->
                           IF t = tribunal
                           THEN [cookies |-> cookies, at |-> clock,
                                 cleared |-> FALSE]
                           ELSE lastSave[t]]
        /\ UNCHANGED clock

CallLoadTokens ==
    \E tribunal \in Tribunals :
        /\ CacheCall("load_tokens", tribunal, cache_file)
        /\ argB' = None
        /\ ret' = load_tokens(cache_file, clock, tribunal)
        /\ UNCHANGED <<clock, lastSave>>

CallClearTokens ==
    \E tribunal \in Tribunals \cup {NoTribunal} :
        /\ CacheCall("clear_tokens", tribunal,
                     TokenCache_clear_tokens(cache_file, tribunal))
        /\ argB' = None
        /\ ret' = None
        /\ lastSave' = [t \in DOMAIN lastSave |->
                           IF tribunal \in {t, NoTribunal}
                           THEN [lastSave[t] EXCEPT !.cleared = TRUE]
                           ELSE lastSave[t]]
        /\ UNCHANGED clock

\* Time passes between two calls.
Wait ==
    \E hours \in Waits :
        /\ clock + hours <= MaxClock
        /\ clock' = clock + hours
        /\ called' = "wait"
        /\ UNCHANGED <<argA, argB, ret, extVars, runVars, loopVars,
                       cache_file, lastSave>>

NextCache == CallSaveTokens \/ CallLoadTokens \/ CallClearTokens \/ Wait

SpecCache == InitCache /\ [][NextCache]_vars

---------------------------------------------------------------------------
(* Runs in which the courts may answer 401 or 403. *)

\* The frames of the court answers in SpecSession: none, or one hearing on
\* either of its dates.
SessionPayloads ==
    {Empty} \cup
    {<<h>> : h \in {r \in RunHearings : r.case = "0001-22.2027.5.02.0001"}}

\* The queries of SpecSession: any number of the attempts may be answered
\* with 401 or 403.
FetchSession == Fetch(SessionPayloads, 0..StopAfterAttempt)

NextSession ==
    \/ StartRun
    \/ Authenticate
    \/ FetchSession
    \/ ReadSnapshot
    \/ DetectChanges
    \/ AppendChanges
    \/ ReconcileFind
    \/ ReconcileDelete
    \/ WriteSnapshot
    \/ PopulateStart
    \/ PopulateRow

SpecSession == Init /\ [][NextSession]_vars

---------------------------------------------------------------------------
(* Claims about the pure functions. *)

\* C2: the rows of combine_and_sort_dataframes(A, B) are in non-decreasing
\* order of hearing date, compared as calendar dates, for all A and B
\* (an empty A or B included).
C2_MergeSortedByDate ==
    called = "combine" =>
        \A i, j \in DOMAIN ret :
            i < j => to_datetime(ret[i].date) <= to_datetime(ret[j].date)

\* C3: when the new set and the old snapshot hold exactly the same records,
\* find_changed_hearings returns nothing.
C3_NoFalsePositive ==
    (called = "find" /\ Range(argA) = Range(argB)) => ret = Empty

\* Row n conflicts with old row o: same case number and venue, and another
\* date, time or type.
Conflicts(n, o) ==
    /\ n.case = o.case
    /\ n.venue = o.venue
    /\ (n.date # o.date \/ n.time # o.time \/ n.type # o.type)

\* Rows that differ in the date and in nothing else.
OnlyDateDiffers(n, o) == n.date # o.date /\ n = [o EXCEPT !.date = n.date]

\* C4: find_changed_hearings(N, O) returns rows of O only, an old row is
\* returned exactly when some new row of the same case number and venue
\* differs from it in date, time or type, and for one old and one new row
\* that differ only in the date the result is exactly the old row.
C4_FlagsConflictingOldRows ==
    called = "find" =>
        /\ \A i \in DOMAIN ret : ret[i] \in Range(argB)
        /\ \A o \in Range(argB) :
              (o \in Range(ret)) <=> (\E n \in Range(argA) : Conflicts(n, o))
        /\ (Len(argA) = 1 /\ Len(argB) = 1 /\ OnlyDateDiffers(argA[1], argB[1]))
              => ret = argB

C4_Witness ==
    /\ called = "find"
    /\ Len(argA) = 1
    /\ Len(argB) = 1
    /\ OnlyDateDiffers(argA[1], argB[1])
    /\ ret = argB

---------------------------------------------------------------------------
(* Claims about a run of process_hearings. *)

\* The rows of a frame have pairwise different identity tuples.
NoDuplicateIdentity(df) ==
    \A i, j \in 1..Len(df) : DedupKey(df[i]) = DedupKey(df[j]) => i = j

\* The collection of a run is over: every source was queried and merged.
Collected_All == pc \notin {"idle", "auth", "fetch"} /\ src = NumSources

\* C1: whatever the sources return (empty answers and answers with repeated
\* rows included), the merged set the fold produces holds no two rows with
\* the same identity tuple (case, venue, date, time).
C1_FoldHasNoDuplicateIdentity ==
    Collected_All => NoDuplicateIdentity(allHearings)

\* C5: within one run every calendar delete (and every title query of
\* handle_changed_events) is made before populate_calendar lists the
\* calendar or inserts an event, and populate_calendar starts only when no
\* event found for a stale row is left to delete.
C5_DeletesBeforeInserts ==
    /\ (calls.delete > 0 \/ calls.find > 0) =>
           did \cap {"list", "insert"} = {}
    /\ pc \in {"populate", "populate_loop"} => found = Empty

\* A run that deleted an event for a stale row and then inserted one.
C5_Witness == "delete" \in did /\ calls.insert = 1 /\ last[1] = "created"

\* populate_calendar ran its loop and is over, by returning or by the error
\* of a create call.
PopulateOver ==
    /\ pc = "ended"
    /\ "list" \in did
    /\ outcome = Completed \/ outcome.cause = "insert"

\* C6: populate_calendar calls create_event for a row exactly when the
\* row's title is not among the titles it fetched at its start.
C6_CreatesExactlyMissingTitles ==
    PopulateOver =>
        createCalls = {i \in 1..Len(allHearings) :
                          Title(allHearings[i]) \notin eventSummaries}

\* C7: the calendar never holds two events with the same title.
C7_OneEventPerTitle ==
    \A e1, e2 \in calendar : e1.summary = e2.summary => e1 = e2

\* C8: a step of handle_changed_events whose title query returned no event
\* makes no delete call and calls the notifier once, with the 'event not
\* found' message.
C8_MissNotifiesOnce ==
    (calls.find = 1 /\ last[1] = "miss") =>
        /\ calls.delete = 0
        /\ sent.anomaly = 1
        /\ sent.changed = 0

\* A stale row whose title no event of the calendar matches was handled.
C8_Witness ==
    /\ calls.find = 1
    /\ last[1] = "miss"
    /\ MatchingEvents(calendar, last[2]) = Empty
    /\ sent.anomaly = 1
    /\ outcome = Running

\* C9: when handle_changed_events is over, a delete was called for every
\* event the title queries returned; a delete that succeeded is followed by
\* one 'hearing changed' notification and a delete that failed by none.
C9_DeletesEveryMatch ==
    /\ pc # "reconcile" => found = Empty
    /\ last[1] = "deleted" /\ calls.delete = 1 => sent.changed = 1
    /\ last[1] = "delete_failed" /\ calls.delete > 0 => sent.changed = 0

\* C10: no run is ended by a failure of EmailNotifier.send.
C10_NotifierFailureNeverEscalates ==
    ~(outcome.status = "aborted" /\ outcome.cause = "notify")

\* C11: a court query that failed (its failure is notified) ends neither
\* the collection nor the run: the step counts as an empty answer and the
\* next query, or the snapshot read after the last one, follows.
C11_FetchFailureDoesNotAbort ==
    [][(pc = "fetch" /\ sent'.error > 0) =>
           (pc' # "ended" /\ src' = src + 1)]_vars

\* C12: a run ended by a failed login leaves the process with a non-zero
\* exit status.
C12_AuthFailureExitsNonZero ==
    (pc = "ended" /\ outcome.cause = "auth") => ExitCode(outcome) # 0

\* C13: no run is ended by the failure of a calendar call.
C13_CalendarFailureNeverEndsRun ==
    ~(outcome.status = "aborted" /\ outcome.cause \in {"insert", "delete"})

\* C14: every step leaves the snapshot sheet as it was or replaces it by the
\* whole merged set of the run, so a run never ends with an emptied or
\* partly written sheet.
C14_SnapshotNeverHalfWritten ==
    [][sheet' = sheet \/ sheet' = allHearings]_vars

\* The events of a calendar that carry a title.
EventsTitled(cal, title) == {e \in cal : e.summary = title}

\* A run has completed, and every external call has succeeded so far.
CleanRunOver == pc = "ended" /\ outcome = Completed /\ ~failed

\* C15: a run in which every call succeeds, and which found the old
\* snapshot's hearing o, with its event on the calendar, returned by the
\* sources under another date, time or type (as row n, and no longer under
\* its old title), ends with no event under the title of o and exactly one
\* event under the title of n.
C15_ChangedHearingMovesItsEvent ==
    (CleanRunOver /\ "delete" \in did) =>
        \A o \in Range(oldHearings), n \in Range(allHearings) :
            (/\ changedHearings = <<o>>
             /\ Conflicts(n, o)
             /\ \A m \in Range(allHearings) : Title(m) # Title(o))
            => /\ EventsTitled(calendar, Title(o)) = {}
               /\ Cardinality(EventsTitled(calendar, Title(n))) = 1

\* The second run, no call having failed so far, has read the snapshot and
\* its merged set is the one the first run wrote (the sources returned the
\* same records again).
SameRecordsAgain ==
    /\ runs = 2
    /\ ~failed
    /\ Collected_All
    /\ pc \notin {"read", "idle"}
    /\ oldHearings = allHearings

\* C16: a run that follows a completed run and gets the same records from
\* the sources, all calls succeeding, makes no calendar delete and no
\* insert, sends no 'changed' and no 'not found' notification, and leaves
\* the snapshot as the first run wrote it.
C16_SecondRunChangesNothing ==
    SameRecordsAgain =>
        /\ did \cap {"delete", "insert"} = {}
        /\ sent.changed = 0
        /\ sent.anomaly = 0
        /\ sheet = oldHearings

---------------------------------------------------------------------------
(* Algebraic claims about combine_and_sort_dataframes. *)

\* The identity tuples of the rows of a frame.
Keys(df) == {DedupKey(df[i]) : i \in DOMAIN df}

\* The rows of a frame that carry an identity tuple.
RowsWithKey(df, k) == {i \in DOMAIN df : DedupKey(df[i]) = k}

\* C17: combine_and_sort_dataframes(A, A) holds the identity tuples of A,
\* each of them once.
C17_MergeWithItself ==
    (called = "combine" /\ argA = argB) =>
        /\ Keys(ret) = Keys(argA)
        /\ \A k \in Keys(ret) : Cardinality(RowsWithKey(ret, k)) = 1

\* A frame with two different identity tuples was merged with itself.
C17_Witness ==
    /\ called = "combine"
    /\ argA = argB
    /\ Cardinality(Keys(argA)) = 2
    /\ Len(ret) = 2

\* C18: combine_and_sort_dataframes(A, empty) and
\* combine_and_sort_dataframes(empty, A) are A: the same rows in the same
\* order with the same field values.
C18_MergeWithEmpty ==
    called = "combine" =>
        /\ argB = Empty => ret = argA
        /\ argA = Empty => ret = argB

\* A frame that is out of date order came back unchanged from a merge with
\* the empty frame.
C18_Witness ==
    /\ called = "combine"
    /\ argB = Empty
    /\ Len(argA) = 2
    /\ to_datetime(argA[1].date) > to_datetime(argA[2].date)
    /\ ret = argA

\* C19: combine_and_sort_dataframes(A, B) and combine_and_sort_dataframes(B,
\* A) hold the same identity tuples, each as often in the one as in the
\* other; they differ at most in the row kept for a tuple and in the order.
C19_MergeContentIsSymmetric ==
    called = "combine" =>
        LET swapped == combine_and_sort_dataframes(argB, argA)
        IN  /\ Keys(ret) = Keys(swapped)
            /\ \A k \in Keys(ret) :
                  Cardinality(RowsWithKey(ret, k)) =
                      Cardinality(RowsWithKey(swapped, k))

\* Two frames that share an identity tuple in rows of different status, and
\* each hold a tuple of their own, were merged: the two orders of the
\* arguments keep different rows.
C19_Witness ==
    /\ called = "combine"
    /\ Keys(argA) \cap Keys(argB) # {}
    /\ Keys(argA) \ Keys(argB) # {}
    /\ Keys(argB) \ Keys(argA) # {}
    /\ Range(ret) # Range(combine_and_sort_dataframes(argB, argA))

---------------------------------------------------------------------------
(* Claims about the rows of a run. *)

\* No row of a frame lacks its case number or its date.
NoNulls(df) == \A i \in DOMAIN df : IsComplete(df[i])

\* C20: every row of the merged set of a run, and so every row written to
\* the snapshot and handed to populate_calendar, has a case number and a
\* date, whatever rows the court answers hold (rows without a date, with a
\* date that is none, or without a case number included).
C20_MergedRowsAreComplete ==
    /\ NoNulls(allHearings)
    /\ NoNulls(sheet)

\* The merged set of a run is what json_to_dataframe makes of an answer that
\* holds a row without case number or date; it was written to the snapshot
\* and populate_calendar is about to get it.
C20_Witness ==
    /\ pc = "populate"
    /\ allHearings # Empty
    /\ sheet = allHearings
    /\ \E json_data \in RawPayloads :
          /\ \E i \in DOMAIN json_data.resultado :
                ~IsComplete(Renamed(json_data.resultado[i]))
          /\ json_to_dataframe(json_data) = allHearings

---------------------------------------------------------------------------
(* Claims about json_to_dataframe. *)

\* What the spec says a raw row maps to: each canonical column holds the
\* value under its source key, or null when the row has no such key; the
\* date is the ISO date <<year, month, day>> as day, month, year, or null
\* when it is no date.
SourceValue(raw, key) == IF key \in DOMAIN raw THEN raw[key] ELSE Null

SourceDate(raw) ==
    IF "dataInicio" \notin DOMAIN raw THEN NullDate
    ELSE LET d == raw.dataInicio
         IN  IF d[1] >= 1 /\ d[2] \in 1..12 /\ d[3] \in 1..31
             THEN <<d[3], d[2], d[1]>> ELSE NullDate

CanonicalRecord(raw) ==
    Hearing(SourceDate(raw), SourceValue(raw, "horaInicial"),
            SourceValue(raw, "numero"), SourceValue(raw, "poloAtivo"),
            SourceValue(raw, "poloPassivo"), SourceValue(raw, "orgaoJulgador"),
            SourceValue(raw, "tipo"), SourceValue(raw, "statusDescricao"))

\* The positions of the raw rows that have a date and a case number.
KeptRows(rows) ==
    {i \in DOMAIN rows :
        SourceDate(rows[i]) # NullDate /\ SourceValue(rows[i], "numero") # Null}

\* The k-th of a set of positions, in ascending order.
NthOf(S, k) == CHOOSE i \in S : Cardinality({j \in S : j <= i}) = k

\* C21: json_to_dataframe returns the empty frame for an answer without
\* keys, without the key 'resultado' or with an empty list under it;
\* otherwise it returns, in the order of the list, the canonical record of
\* every raw row that has a well-formed date and a case number, and of no
\* other row, a key no row has giving a null column.
C21_JsonToCanonicalRecords ==
    called = "json" =>
        IF "resultado" \notin DOMAIN argA THEN ret = Empty
        ELSE LET rows == argA.resultado
                 kept == KeptRows(rows)
             IN  /\ rows = Empty => ret = Empty
                 /\ Len(ret) = Cardinality(kept)
                 /\ \A k \in DOMAIN ret :
                       ret[k] = CanonicalRecord(rows[NthOf(kept, k)])

\* An answer of two rows that both lack the claimant, one of them without
\* a case number: the other row alone came back, with a null claimant.
C21_Witness ==
    /\ called = "json"
    /\ "resultado" \in DOMAIN argA
    /\ Len(argA.resultado) = 2
    /\ \A i \in 1..2 : "poloAtivo" \notin DOMAIN argA.resultado[i]
    /\ Len(ret) = 1
    /\ ret[1].claimant = Null
    /\ ret[1].case # Null

---------------------------------------------------------------------------
(* Further claims about find_changed_hearings. *)

\* Two rows are scheduled alike: same date, time and type.
SameSchedule(n, o) == n.date = o.date /\ n.time = o.time /\ n.type = o.type

\* C22: claimant, respondent and status take no part in change detection:
\* an old row is not flagged when every new row of its case number and
\* venue has its date, time and type, whatever their claimant, respondent
\* and status are.
C22_PartiesAndStatusNotCompared ==
    called = "find" =>
        \A o \in Range(argB) :
            (\A n \in Range(argA) :
                (n.case = o.case /\ n.venue = o.venue) => SameSchedule(n, o))
            => o \notin Range(ret)

\* One new and one old row of the same case, venue, date, time and type
\* that differ in the claimant, the respondent or the status: nothing was
\* flagged.
C22_Witness ==
    /\ called = "find"
    /\ Len(argA) = 1
    /\ Len(argB) = 1
    /\ argA[1] # argB[1]
    /\ argA[1].case = argB[1].case
    /\ argA[1].venue = argB[1].venue
    /\ SameSchedule(argA[1], argB[1])
    /\ ret = Empty


\* The rows of a frame that equal r, and the new rows that conflict with an
\* old row.
Copies(df, r) == {i \in DOMAIN df : df[i] = r}
ConflictingRows(new_df, o) == {i \in DOMAIN new_df : Conflicts(new_df[i], o)}

\* C27: find_changed_hearings(N, O) returns every row of O once for each
\* row of N that has its case number and venue and another date, time or
\* type: repeats through several new rows are not suppressed.
C27_OncePerConflictingNewRow ==
    called = "find" =>
        \A o \in Range(argB) :
            Cardinality(Copies(ret, o)) =
                Cardinality(Copies(argB, o))
                    * Cardinality(ConflictingRows(argA, o))

\* One old row and two new rows that both conflict with it: the old row
\* was returned twice.
C27_Witness ==
    /\ called = "find"
    /\ Len(argB) = 1
    /\ Cardinality(ConflictingRows(argA, argB[1])) = 2
    /\ ret = <<argB[1], argB[1]>>

---------------------------------------------------------------------------
(* Claims about the start of a run. *)

\* C23: a run that finds a required setting missing is over in its first
\* step: no court query, no snapshot read or write and no calendar call is
\* made, a notification is attempted, and the process exits non-zero.
C23_MissingSettingAbortsAtOnce ==
    [][outcome'.cause = "config" =>
          /\ pc' = "ended"
          /\ src' = 0
          /\ oldHearings' = Empty
          /\ sheet' = sheet
          /\ calendar' = calendar
          /\ calls' = NoCalls
          /\ did' = {}
          /\ sent'.error >= 1
          /\ ExitCode(outcome') # 0]_vars

\* The second run found a setting missing, the first having written the
\* snapshot and created events.
C23_Witness ==
    /\ pc = "ended"
    /\ outcome.cause = "config"
    /\ runs = 2
    /\ sheet # Empty
    /\ calendar # {}

---------------------------------------------------------------------------
(* Claims about the court sessions. *)

\* C24: a query that a court answers with 401 or 403 removes that
\* tribunal's entry from the token cache and leaves the other's, counts as
\* an empty answer, and the run goes on; nothing but a login restores the
\* entry, and the login of the next run makes a browser login for every
\* tribunal without an entry.
C24_DeniedQueryInvalidatesSession ==
    [][/\ (pc = "fetch" /\ calls'.denied > 0) =>
              /\ tokenCache' = tokenCache \ {SourceTribunal(src)}
              /\ allHearings' = Collected(Empty)
              /\ src' = src + 1
              /\ pc' # "ended"
       /\ pc # "auth" => tokenCache' \subseteq tokenCache
       /\ (pc = "auth" /\ pc' = "fetch") =>
              calls'.login >= Cardinality(Tribunals \ tokenCache)]_vars

---------------------------------------------------------------------------
(* Claims about runs without an old snapshot or without hearings. *)

\* C25: while the old snapshot of a run or its merged set is empty, nothing
\* is flagged as changed: the run appends nothing to the change log, makes
\* no title query and no calendar delete, and sends no 'changed' and no
\* 'not found' notification.
C25_EmptySideMeansNoChange ==
    (oldHearings = Empty \/ allHearings = Empty) =>
        /\ changedHearings = Empty
        /\ changedRows = 0
        /\ did \cap {"find", "delete"} = {}
        /\ sent.changed = 0
        /\ sent.anomaly = 0

\* The second run is about to overwrite a snapshot that holds a hearing the
\* sources now return under another date, and has found no change, its read
\* of the snapshot having yielded nothing.
C25_Witness ==
    /\ runs = 2
    /\ pc = "write"
    /\ oldHearings = Empty
    /\ \E n \in Range(allHearings), o \in Range(sheet) : Conflicts(n, o)

---------------------------------------------------------------------------
(* Claims about the order of the sources. *)

\* The queries whose frame holds a row of identity tuple k.
SourcesWithKey(answers, k) == {i \in DOMAIN answers : k \in Keys(answers[i])}

\* The first row of identity tuple k in a frame that holds one.
FirstWithKey(df, k) ==
    df[CHOOSE i \in RowsWithKey(df, k) : \A j \in RowsWithKey(df, k) : i <= j]

\* C26: an identity tuple that two or more of the queries of a run return
\* is in the merged set once, as the first record of the earliest of these
\* queries; for two non-empty frames A and B that is the first row of the
\* tuple in A.
C26_EarliestSourceWins ==
    called = "fold" =>
        \A k \in Keys(ret) :
            LET from == SourcesWithKey(argA, k)
                earliest == CHOOSE i \in from : \A j \in from : i <= j
            IN  Cardinality(from) >= 2 =>
                    /\ Cardinality(RowsWithKey(ret, k)) = 1
                    /\ FirstWithKey(ret, k) = FirstWithKey(argA[earliest], k)

\* The first query returned nothing, the second a hearing under one status
\* and the third the same hearing under the other: the merged set holds the
\* second query's record.
C26_Witness ==
    /\ called = "fold"
    /\ argA[1] = Empty
    /\ Len(argA[2]) = 1
    /\ Len(argA[3]) = 1
    /\ argA[2][1] # argA[3][1]
    /\ ret = argA[2]

---------------------------------------------------------------------------
(* Claims about the retries. *)

\* C28: one invocation of a retried operation makes each of its remote
\* calls at most StopAfterAttempt (3) times, the clear request of
\* write_to_sheet included, and it stops before the third attempt only when
\* a call was answered.
C28_RetriesBoundedByCeiling ==
    called = "retry" =>
        /\ ret.attempts <= StopAfterAttempt
        /\ ret.clears <= StopAfterAttempt
        /\ (0 < ret.attempts /\ ret.attempts < StopAfterAttempt) =>
               argA.outcomes[ret.attempts] = "ok"

---------------------------------------------------------------------------
(* Claims about the order of the phases. *)

\* The order the spec gives to the phases of a run (the loop of
\* populate_calendar belongs to the populate phase).
StatedOrder ==
    <<"read", "detect", "append", "reconcile", "write", "populate",
      "populate_loop">>

StatedRank(p) == CHOOSE i \in DOMAIN StatedOrder : StatedOrder[i] = p

\* C29: within a run the phases follow one another in the order read
\* snapshot, detect changes, append change log, reconcile deletions, write
\* snapshot, populate; the snapshot is changed by the write phase only, so
\* the old snapshot that change detection compares with is the sheet as it
\* was before the write (or nothing, when the read failed), and the
\* calendar gets its new events after the write.
C29_PhasesInStatedOrder ==
    [][/\ (pc \in Range(StatedOrder) /\ pc' \in Range(StatedOrder)
              /\ pc' # pc) => StatedRank(pc) < StatedRank(pc')
       /\ sheet' # sheet => pc = "write"
       /\ pc = "detect" => (oldHearings = sheet \/ oldHearings = Empty)
       /\ calls'.insert > 0 => pc = "populate_loop"]_vars

\* A run went through all six phases: it read a snapshot, found a changed
\* hearing, appended it to the change log, deleted its event, wrote the new
\* snapshot and is populating the calendar.
C29_Witness ==
    /\ pc = "populate_loop"
    /\ oldHearings # Empty
    /\ changedRows > 0
    /\ "delete" \in did
    /\ sheet = allHearings
    /\ sheet # oldHearings

---------------------------------------------------------------------------
(* Claims about the snapshot sheet. *)

\* C30: after a successful write_to_sheet of a non-empty merged set,
\* read_from_sheet returns exactly its rows, in order, under the eight
\* column headers, and no row of the previous snapshot.
C30_WriteThenReadIsRoundTrip ==
    called = "roundtrip" =>
        /\ ret.columns = SheetHeader
        /\ Len(ret.columns) = 8
        /\ ret.rows = argA
        /\ Range(ret.rows) \cap Range(argB) = {}

---------------------------------------------------------------------------
(* Claims about populate_calendar called twice. *)

\* C31: populate_calendar called a second time with the same record set,
\* every calendar call succeeding and nobody else writing to the calendar,
\* calls create_event for no row.
C31_SecondPopulateCreatesNothing ==
    called = "populate_again" => ret = Empty

---------------------------------------------------------------------------
(* Claims about runs that leave the stores alone. *)

\* The steps of a run after its collection.
AfterCollection ==
    pc \in Range(Phases) \cup {"populate_loop"}

\* C32: in a run whose merged set is empty no step after the collection
\* changes the snapshot sheet or the calendar or makes a calendar call;
\* write_to_sheet and populate_calendar each call the notifier once, with
\* the 'empty data' message.
C32_EmptyMergedSetChangesNothing ==
    [][(AfterCollection /\ allHearings = Empty) =>
          /\ sheet' = sheet
          /\ calendar' = calendar
          /\ calls' = NoCalls
          /\ pc \in {"write", "populate"} => sent'.empty = 1]_vars

\* C33: a run in which the login of either court fails (the failure is
\* notified) ends in that step, having made no court query, no snapshot
\* read, append or write and no calendar call: the snapshot sheet and the
\* calendar are as they were when the run started.
C33_AuthFailureTouchesNothing ==
    [][/\ pc' = "auth" => (sheet' = sheet /\ calendar' = calendar)
       /\ (pc = "auth" /\ sent'.error > 0) =>
              /\ pc' = "ended"
              /\ outcome'.cause \in {"auth", "notify"}
              /\ sheet' = sheet
              /\ calendar' = calendar
              /\ src' = 0
              /\ allHearings' = Empty
              /\ oldHearings' = Empty
              /\ changedRows' = 0
              /\ did' = {}
              /\ createCalls' = {}
              /\ \A kind \in {"list", "find", "insert", "delete", "denied"} :
                    calls'[kind] = 0]_vars

\* The second run ended at the failed login of TRT15, after a browser login
\* of TRT2 that succeeded; the first run had written the snapshot and
\* created events.
C33_Witness ==
    /\ pc = "ended"
    /\ outcome = [status |-> "returned", cause |-> "auth"]
    /\ runs = 2
    /\ calls.login = 2
    /\ "TRT2" \in tokenCache
    /\ "TRT15" \notin tokenCache
    /\ sheet # Empty
    /\ calendar # {}

---------------------------------------------------------------------------
(* Claims about one call of handle_changed_events. *)

\* The events a calendar holds for a title query.
Matching(cal, q) == {e \in cal : TitleMatches(e.summary, q)}

\* C34: within one call of handle_changed_events the 'event not found'
\* notification is sent for a stale row only if no event of the calendar
\* matched its title when the call started; no delete is called for an
\* event that is gone; and when the call returns, every event that matched
\* a stale row at the start has been deleted.
C34_NoAnomalyForEventsHeldAtStart ==
    [][/\ (last'[1] = "miss" /\ sent'.anomaly > 0) =>
              Matching(argB, last'[2]) = {}
       /\ calls'.delete > 0 => Head(found) \in calendar
       /\ (pc = "reconcile" /\ pc' = "write") =>
              \A i \in DOMAIN changedHearings :
                  Matching(argB, Title(changedHearings[i])) \cap calendar' = {}
      ]_vars

---------------------------------------------------------------------------
(* Claims about the loops of a run. *)

\* C35: every run ends, by completing, returning or aborting, whatever the
\* external calls answer.
C35_EveryRunTerminates == <>(pc = "ended")

\* A run has completed although a login waited for the user, calls failed
\* and were tried again, and stale events were deleted and new ones created.
C35_Witness ==
    /\ pc = "ended"
    /\ outcome = Completed
    /\ failed
    /\ "TRT15" \in tokenCache
    /\ changedHearings # Empty
    /\ sheet = allHearings
    /\ calendar # {}

\* C36: login_interactive with cached tokens that pass the session check
\* returns success without opening a browser and leaves the cache as it is;
\* with cached tokens that fail the check it removes the tribunal's entry
\* before the browser is opened; and an entry is written only by the round
\* of the wait loop that detected the login, so a login that failed or
\* timed out writes none.
C36_LoginUsesTokenCache ==
    [][/\ (pc = "auth" /\ last'[2] = "valid") =>
              /\ pc' \in {"auth", "fetch"}
              /\ idx' # idx
              /\ tokenCache' = tokenCache
       /\ (pc = "auth" /\ last'[2] = "rejected") =>
              /\ pc' = "browser"
              /\ LoginTribunal \notin tokenCache'
       /\ ~(tokenCache' \subseteq tokenCache) =>
              /\ pc = "wait"
              /\ elapsed < LoginTimeout
              /\ pc' \in {"auth", "fetch"}
              /\ resume' = "none"
              /\ tokenCache' = tokenCache \cup {LoginTribunal}
       /\ resume' = "login_failed" => tokenCache' = tokenCache]_vars

\* The cached tokens of TRT15 were rejected and its entry is gone, the
\* browser not yet opened; TRT2 is logged in.
C36_Witness ==
    /\ pc = "browser"
    /\ idx = 1
    /\ last = <<"cache", "rejected">>
    /\ tokenCache = {"TRT2"}

---------------------------------------------------------------------------
(* Claims about the token cache file. *)

\* C37 as stated: load_tokens(t) returns exactly the cookies of the last
\* save_tokens(t, cookies) at any time up to TOKEN_EXPIRY_HOURS after that
\* save, and nothing after it or for a tribunal never saved.
C37_LoadFollowsLastSaveOnly ==
    called = "load_tokens" =>
        ret = IF /\ argA \in DOMAIN lastSave
                 /\ clock <= lastSave[argA].at + TOKEN_EXPIRY_HOURS
              THEN Some(lastSave[argA].cookies)
              ELSE None

\* C37: load_tokens(t) returns exactly the cookies of the last
\* save_tokens(t, cookies) at any time up to TOKEN_EXPIRY_HOURS after that
\* save, provided no clear_tokens(t) and no clear_tokens() was called since;
\* it returns nothing after the expiry, after such a clear, and for a
\* tribunal never saved.
C37_LoadFollowsLastSaveAndClear ==
    called = "load_tokens" =>
        ret = IF /\ argA \in DOMAIN lastSave
                 /\ ~lastSave[argA].cleared
                 /\ clock <= lastSave[argA].at + TOKEN_EXPIRY_HOURS
              THEN Some(lastSave[argA].cookies)
              ELSE None

\* load_tokens returns the saved cookies at the very hour they expire.
C37_Witness ==
    /\ called = "load_tokens"
    /\ argA \in DOMAIN lastSave
    /\ clock = lastSave[argA].at + TOKEN_EXPIRY_HOURS
    /\ ret = Some(lastSave[argA].cookies)

\* Tribunal t has the same entry, or none, in both caches.
SameEntry(before, after, t) ==
    /\ t \in DOMAIN before <=> t \in DOMAIN after
    /\ t \in DOMAIN before => after[t] = before[t]

\* C38: save_tokens(t, ...) and clear_tokens(t) leave the cookies and the
\* expiry of every other tribunal as they were, and clear_tokens(t) for a
\* tribunal without an entry leaves the cache file as it was.
C38_OtherEntriesUntouched ==
    [][called' \in {"save_tokens", "clear_tokens"} /\ argA' # NoTribunal =>
        /\ \A t \in Tribunals \ {argA'} :
               SameEntry(load_cache(cache_file), load_cache(cache_file'), t)
        /\ (/\ called' = "clear_tokens"
            /\ argA' \notin DOMAIN load_cache(cache_file))
               => cache_file' = cache_file]_vars

\* The entry of one tribunal has been cleared while another has an entry.
C38_Witness ==
    /\ called = "clear_tokens"
    /\ argA \in DOMAIN lastSave
    /\ argA \notin tokenCache
    /\ tokenCache # {}

=============================================================================
